---- MODULE Spec2Model ----
(***************************************************************************)
(* A state-machine model of the adaptive test-delivery engine of           *)
(* ssat-practice: the leveling engine (leveling.py), the question pool     *)
(* cache (question_cache.py over database.py), the countdown timer         *)
(* (timer.py) and the console session orchestrator (test_runner.py).       *)
(*                                                                         *)
(* Numbers.  Difficulty levels are floats that only ever take multiples of *)
(* 0.5; they are held in tenths (3.0 is 30, the step 0.5 is 5).  Accuracy  *)
(* thresholds are held in hundredths (0.85 is 85) and a comparison         *)
(* c / n >= 0.85 of the code is evaluated as 100 * c >= 85 * n: for the    *)
(* four thresholds of the code (0.85, 0.80, 0.60, 0.50) the double         *)
(* comparison and the exact one agree for every 0 <= c <= n, n >= 1.       *)
(***************************************************************************)
EXTENDS Integers, Sequences, FiniteSets, TLC

VARIABLES
    student,      \* leveling/runner: the Student row, [level, grade]
    mastery,      \* topic_mastery table of the student: topic -> TopicMastery
    answerLog,    \* answers table, per topic: how many rows, how many correct
    dbSessions,   \* test_sessions rows of the student, newest first
    ret,          \* the last engine call and what it returned
    dbQuestions,  \* questions table: the rows in id order (id = position)
    seen,         \* ids of the questions the student has an answers row for
    cret,         \* the last get_questions call and what it returned
    pc,           \* runner: where the console flow stands
    flow,         \* runner: the locals of the flow (mode, session, section, lists)
    questions,    \* _run_section: the questions argument
    qi,           \* _run_section: the loop index i
    answers,      \* _run_section: the answers list
    shown,        \* what the console presented and what the student typed
    timer,        \* the Timer object of the section and its thread
    saved         \* answers rows inserted by the flow, in insertion order

levelVars == <<student, mastery, answerLog, dbSessions, ret>>
cacheVars == <<dbQuestions, seen, cret>>
sectionVars == <<questions, qi, answers, shown, timer>>
runVars == <<pc, flow, questions, qi, answers, shown, timer, saved>>

vars == <<student, mastery, answerLog, dbSessions, ret, dbQuestions, seen, cret,
          pc, flow, questions, qi, answers, shown, timer, saved>>

(***************************************************************************)
(* Bounds of the model                                                     *)
(***************************************************************************)
\* largest number of answers of one topic in one graded batch (small batches)
MaxBatch == 2
\* cap on the student's answer rows under small batches
MaxAttempted == 10
\* cap on the student's answer rows under the coarse batches of SpecMastery
MaxAttemptedCoarse == 20
\* cap on the number of full-test session rows
MaxSessions == 3
\* cap on the number of rows of the questions table
MaxPool == 2
\* largest count a get_questions call asks for
MaxCount == 2
\* largest number of items one generator response holds
MaxGen == 2
\* longest countdown of a section timer, in ticks
MaxSeconds == 1
\* longest questions list _run_section is called with on its own
MaxSectionQuestions == 3
\* largest number of questions the cache hands to one section of a flow
MaxQuestions == 2
\* number of unseen questions the cache can hand out during one flow
MaxDelivered == 3

(***************************************************************************)
(* config.py                                                               *)
(***************************************************************************)
MASTERY_PERCENTILE == 85
MASTERY_TEST_COUNT == 3
MASTERY_ACCURACY == 85
MASTERY_MIN_QUESTIONS == 20
DIFFICULTY_MIN == 10
DIFFICULTY_MAX == 50
DIFFICULTY_DEFAULT == 30
DIFFICULTY_UP_THRESHOLD == 85
DIFFICULTY_DOWN_THRESHOLD == 50
DIFFICULTY_STEP == 5
MIN_QUESTIONS_FOR_ADJUST == 5
LEVEL_DOWN_PERCENTILE == 40
LEVEL_DOWN_TEST_COUNT == 2
QUESTIONS_PER_BATCH == 25
MIN_POOL_SIZE == 10
\* questions_per_passage=4 of the reading-comprehension requests
QUESTIONS_PER_PASSAGE == 4
\* the literals 0.80 and 0.60 of _update_topic
OVERALL_UP_ACCURACY == 80
OVERALL_DOWN_ACCURACY == 60
\* the limit=50 of the last-50 window
WINDOW == 50

\* Optional[...] = None of models.py (a percentile that was never set)
None == -1

Min(a, b) == IF a <= b THEN a ELSE b
Max(a, b) == IF a >= b THEN a ELSE b

\* the topics the model tracks (three of the seven question types, one for
\* each section of a test)
Topics == {"synonym", "arithmetic", "reading_comprehension"}

\* the topics the batches of the leveling specifications hold answers of
DrilledTopics == {"synonym", "arithmetic"}

\* (level, grade) pairs inside LEVEL_CONFIGS' grade ranges
Placements ==
    { [level |-> "elementary", grade |-> 3], [level |-> "elementary", grade |-> 4],
      [level |-> "middle", grade |-> 5], [level |-> "middle", grade |-> 6],
      [level |-> "middle", grade |-> 7] }

(***************************************************************************)
(* leveling.py: _update_topic                                              *)
(***************************************************************************)
\* TopicMastery(student_id, topic_tag, difficulty_level=DIFFICULTY_DEFAULT)
NewMastery ==
    [ exists |-> FALSE, difficulty_level |-> DIFFICULTY_DEFAULT,
      total_attempted |-> 0, total_correct |-> 0,
      last_50_attempted |-> 0, last_50_correct |-> 0 ]

\* correct / total >= pct / 100, the quotient being 0 when total = 0
AccuracyAtLeast(correct, total, pct) ==
    IF total > 0 THEN 100 * correct >= pct * total ELSE 0 >= pct

StepUpMutant(d) == d + DIFFICULTY_STEP
\* min(DIFFICULTY_MAX, difficulty + DIFFICULTY_STEP)
StepUp(d) == Min(DIFFICULTY_MAX, d + DIFFICULTY_STEP)

\* max(DIFFICULTY_MIN, difficulty - DIFFICULTY_STEP)
StepDown(d) == Max(DIFFICULTY_MIN, d - DIFFICULTY_STEP)

UpConditionMutant(sc, st, tc, ta) ==
    /\ AccuracyAtLeast(sc, st, DIFFICULTY_UP_THRESHOLD)
    /\ 100 * tc > OVERALL_UP_ACCURACY * ta
\* session_accuracy >= DIFFICULTY_UP_THRESHOLD and overall_accuracy >= 0.80
UpCondition(sc, st, tc, ta) ==
    /\ AccuracyAtLeast(sc, st, DIFFICULTY_UP_THRESHOLD)
    /\ AccuracyAtLeast(tc, ta, OVERALL_UP_ACCURACY)

DownConditionMutant(sc, st, tc, ta) ==
    /\ ~AccuracyAtLeast(sc, st, DIFFICULTY_DOWN_THRESHOLD)
    /\ ~AccuracyAtLeast(tc, ta, DIFFICULTY_DOWN_THRESHOLD)
\* session_accuracy < DIFFICULTY_DOWN_THRESHOLD and overall_accuracy < 0.60
DownCondition(sc, st, tc, ta) ==
    /\ ~AccuracyAtLeast(sc, st, DIFFICULTY_DOWN_THRESHOLD)
    /\ ~AccuracyAtLeast(tc, ta, OVERALL_DOWN_ACCURACY)

\* the difficulty after the adjustment block, from the updated totals
AdjustedDifficulty(d, sc, st, tc, ta) ==
    IF ta >= MIN_QUESTIONS_FOR_ADJUST
    THEN IF UpCondition(sc, st, tc, ta) THEN StepUp(d)
         ELSE IF DownCondition(sc, st, tc, ta) THEN StepDown(d)
         ELSE d
    ELSE d

\* The values the slice recent_answers[:50] can have when the answers table
\* holds log.n rows of the topic, log.c of them correct: the query returns the
\* min(n, 50) newest rows, and the correct ones among them are at least
\* those that do not fit in the older rows and at most all the correct rows.
WindowCorrect(log) ==
    LET k == Min(log.n, WINDOW)
    IN  Max(0, k - (log.n - log.c)) .. Min(k, log.c)

UpdateTopicMutant(m, sc, st, log, w) ==
    LET ta == m.total_attempted + st
        tc == m.total_correct + sc
    IN  [ exists |-> TRUE,
          difficulty_level |-> AdjustedDifficulty(m.difficulty_level, sc, st, tc, ta),
          total_attempted |-> ta,
          total_correct |-> tc,
          last_50_attempted |-> log.n,
          last_50_correct |-> w ]

\* _update_topic(topic, pairs) for a non-empty batch with `st` answers, `sc`
\* of them correct; `log` is the answers table of the topic and `w` the
\* number of correct rows among the newest 50.  Gives the upserted record.
UpdateTopic(m, sc, st, log, w) ==
    LET ta == m.total_attempted + st
        tc == m.total_correct + sc
    IN  [ exists |-> TRUE,
          difficulty_level |-> AdjustedDifficulty(m.difficulty_level, sc, st, tc, ta),
          total_attempted |-> ta,
          total_correct |-> tc,
          last_50_attempted |-> Min(Min(log.n, WINDOW), WINDOW),
          last_50_correct |-> w ]

\* the event string of _update_topic: "up", "down" or none
TopicEvent(old, new) ==
    IF new > old THEN "up" ELSE IF new < old THEN "down" ELSE "none"

(***************************************************************************)
(* leveling.py: _check_level_mastery and _level_up                         *)
(***************************************************************************)
LevelUpMutant(s) ==
    IF s.level = "elementary"
    THEN IF s.grade < 4
         THEN [student |-> [s EXCEPT !.grade = s.grade + 1], event |-> "grade_up"]
         ELSE [student |-> [level |-> "middle", grade |-> 5], event |-> "to_middle"]
    ELSE IF s.level = "middle"
    THEN [student |-> [s EXCEPT !.grade = s.grade + 1], event |-> "grade_up"]
    ELSE [student |-> s, event |-> "none"]
\* _level_up: the student row after promotion and the message returned
LevelUp(s) ==
    IF s.level = "elementary"
    THEN IF s.grade < 4
         THEN [student |-> [s EXCEPT !.grade = s.grade + 1], event |-> "grade_up"]
         ELSE [student |-> [level |-> "middle", grade |-> 5], event |-> "to_middle"]
    ELSE IF s.level = "middle"
    THEN IF s.grade < 7
         THEN [student |-> [s EXCEPT !.grade = s.grade + 1], event |-> "grade_up"]
         ELSE [student |-> s, event |-> "mastered"]
    ELSE [student |-> s, event |-> "none"]

\* TestSession as create_session inserts it: no completion timestamp, no
\* score.  `updates` counts the update_session calls made on the row.
NewSession(id, mode) ==
    [ id |-> id, mode |-> mode, completed |-> FALSE, updates |-> 0,
      verbal_raw |-> None, verbal_scaled |-> None, verbal_percentile |-> None,
      quantitative_raw |-> None, quantitative_scaled |-> None,
      quantitative_percentile |-> None,
      reading_raw |-> None, reading_scaled |-> None, reading_percentile |-> None,
      total_scaled |-> None ]

IsFullTest(s) == s.mode = "full_test"

\* WHERE mode = 'full_test' ORDER BY started_at DESC
ftSessions == SelectSeq(dbSessions, IsFullTest)

\* get_sessions_for_student(mode="full_test", limit): the newest `limit` rows
RecentSessions(sessions, limit) == SubSeq(sessions, 1, Min(Len(sessions), limit))

PercentileFields == {"verbal_percentile", "quantitative_percentile", "reading_percentile"}

\* the all_high loop: no percentile of the sessions is None or below the bar
AllHigh(recent) ==
    \A i \in 1..Len(recent) : \A f \in PercentileFields :
        ~(recent[i][f] = None \/ recent[i][f] < MASTERY_PERCENTILE)

TopicsAccurateMutant(table) ==
    \A t \in DOMAIN table :
        (table[t].exists /\ table[t].total_attempted > MASTERY_MIN_QUESTIONS)
            => AccuracyAtLeast(table[t].total_correct, table[t].total_attempted,
                               MASTERY_ACCURACY)
\* the mastery_records loop: no record with >= MASTERY_MIN_QUESTIONS attempts
\* has accuracy below MASTERY_ACCURACY
TopicsAccurate(table) ==
    \A t \in DOMAIN table :
        (table[t].exists /\ table[t].total_attempted >= MASTERY_MIN_QUESTIONS)
            => AccuracyAtLeast(table[t].total_correct, table[t].total_attempted,
                               MASTERY_ACCURACY)

\* _check_level_mastery over the stored sessions and mastery records
CheckLevelMastery(s, sessions, table) ==
    LET got == RecentSessions(sessions, MASTERY_TEST_COUNT)
    IN  IF Len(got) < MASTERY_TEST_COUNT THEN [student |-> s, event |-> "none"]
        ELSE IF ~AllHigh(RecentSessions(got, MASTERY_TEST_COUNT))
        THEN [student |-> s, event |-> "none"]
        ELSE IF ~TopicsAccurate(table) THEN [student |-> s, event |-> "none"]
        ELSE LevelUp(s)

(***************************************************************************)
(* leveling.py: update_after_answers, with the save_answer calls its       *)
(* callers make for the batch before they call it                          *)
(***************************************************************************)
\* a batch, grouped by question type: topic -> [n answers, c of them correct];
\* n = 0 when the batch holds no answer of the topic
NoAnswers == [n |-> 0, c |-> 0]

\* the batch over all topics that holds f's answers of the drilled topics
BatchOver(f) == [t \in Topics |-> IF t \in DrilledTopics THEN f[t] ELSE NoAnswers]

BatchesOf(sizes) ==
    { BatchOver(f) :
        f \in [DrilledTopics -> UNION { {[n |-> k, c |-> j] : j \in 0..k} : k \in sizes }] }

SmallBatches == BatchesOf(0..MaxBatch)

\* the answers table after save_answer of every answer of the batch
SavedLog(log, batch) ==
    [t \in Topics |-> [n |-> log[t].n + batch[t].n, c |-> log[t].c + batch[t].c]]

\* the record _update_topic starts from: the stored row or a new one
MasteryOrNew(m) == IF m.exists THEN m ELSE NewMastery

UpdatedTableMutant(table, batch, log, w) ==
    [t \in Topics |->
        UpdateTopic(MasteryOrNew(table[t]), batch[t].c, batch[t].n, log[t], w[t])]
\* the topic_mastery table after the by_type loop: one _update_topic per
\* topic that has an answer in the batch
UpdatedTable(table, batch, log, w) ==
    [t \in Topics |->
        IF batch[t].n > 0
        THEN UpdateTopic(MasteryOrNew(table[t]), batch[t].c, batch[t].n, log[t], w[t])
        ELSE table[t]]

\* the window counts the queries of one call can see: for every topic of S
\* one of its WindowCorrect values
RECURSIVE Windows(_, _)
Windows(log, S) ==
    IF S = {} THEN { << >> }
    ELSE LET t == CHOOSE x \in S : TRUE
         IN  { (t :> v) @@ f : v \in WindowCorrect(log[t]), f \in Windows(log, S \ {t}) }

\* update_after_answers(answers, questions) for the batch the answers
\* group into; `log` is the answers table its window queries read.  The
\* call record keeps the number of full-test rows its session query saw.
EngineUpdate(batch, log) ==
    \E w \in Windows(log, Topics) :
      /\ \A t \in Topics : w[t] \in WindowCorrect(log[t])
      /\ LET table == UpdatedTable(mastery, batch, log, w)
             check == CheckLevelMastery(student, ftSessions, table)
         IN  /\ mastery' = table
             /\ student' = check.student
             /\ ret' = [ op |-> "update_after_answers",
                         topic_events |->
                            [t \in Topics |->
                                IF batch[t].n > 0
                                THEN TopicEvent(MasteryOrNew(mastery[t]).difficulty_level,
                                                table[t].difficulty_level)
                                ELSE "none"],
                         mastery_event |-> check.event,
                         full_tests |-> Len(ftSessions) ]

\* the caller saves the answers of the batch, then runs the engine
UpdateAfterAnswers(batch) ==
    /\ answerLog' = SavedLog(answerLog, batch)
    /\ EngineUpdate(batch, SavedLog(answerLog, batch))
    /\ UNCHANGED dbSessions

\* the number of answer rows of the topics in S
RECURSIVE Answered(_, _)
Answered(log, S) ==
    IF S = {} THEN 0
    ELSE LET t == CHOOSE x \in S : TRUE IN log[t].n + Answered(log, S \ {t})

\* small batches, while the answers table stays under its cap
UpdateSmall ==
    \E batch \in SmallBatches :
        /\ \E t \in Topics : batch[t].n > 0
        /\ Answered(SavedLog(answerLog, batch), Topics) <= MaxAttempted
        /\ UpdateAfterAnswers(batch)

(***************************************************************************)
(* question_cache.py over database.py: get_questions                       *)
(***************************************************************************)
\* A stem is a word in one of two spellings; strip().lower() of
\* _deduplicate maps both spellings to the lower-case one.
Stems == { [word |-> "alpha", caps |-> FALSE], [word |-> "alpha", caps |-> TRUE],
           [word |-> "beta", caps |-> FALSE] }

\* q.stem.strip().lower()
Normalize(stem) == [word |-> stem.word, caps |-> FALSE]

\* the (question_type, level, difficulty) a call asks for
Requests ==
    { [question_type |-> "synonym", level |-> "elementary", difficulty |-> 3],
      [question_type |-> "synonym", level |-> "elementary", difficulty |-> 4],
      [question_type |-> "reading_comprehension", level |-> "middle", difficulty |-> 3] }

RangeOf(seq) == { seq[i] : i \in 1..Len(seq) }

\* Python's seq[:n]
Take(seq, n) ==
    IF n >= 0 THEN SubSeq(seq, 1, Min(n, Len(seq)))
    ELSE SubSeq(seq, 1, Max(0, Len(seq) + n))

\* WHERE question_type = .. AND level = .. AND difficulty = .. AND id NOT IN
\* (answers of the student)
ExactRows(db, answered, r) ==
    { i \in 1..Len(db) :
        /\ db[i].question_type = r.question_type
        /\ db[i].level = r.level
        /\ db[i].difficulty = r.difficulty
        /\ i \notin answered }

\* the same without the difficulty condition
AnyRows(db, answered, r) ==
    { i \in 1..Len(db) :
        /\ db[i].question_type = r.question_type
        /\ db[i].level = r.level
        /\ i \notin answered }

\* ORDER BY RANDOM() LIMIT limit over the rows S: any min(limit, |S|) of
\* them, in any order
Picks(S, limit) ==
    LET k == Min(limit, Cardinality(S))
    IN  { p \in [1..k -> S] : \A i, j \in 1..k : i # j => p[i] # p[j] }

\* the seen_ids loop: append the rows of `more` that are not yet chosen
RECURSIVE AppendNew(_, _)
AppendNew(chosen, more) ==
    IF more = << >> THEN chosen
    ELSE IF Head(more) \in RangeOf(chosen) THEN AppendNew(chosen, Tail(more))
    ELSE AppendNew(Append(chosen, Head(more)), Tail(more))

\* _deduplicate: keep the first item of every normalized stem
RECURSIVE DedupFrom(_, _, _)
DedupFrom(batch, seenStems, unique) ==
    IF batch = << >> THEN unique
    ELSE IF Normalize(Head(batch)) \in seenStems
         THEN DedupFrom(Tail(batch), seenStems, unique)
         ELSE DedupFrom(Tail(batch), seenStems \cup {Normalize(Head(batch))},
                        Append(unique, Head(batch)))

DeduplicateMutant(batch) == batch
Deduplicate(batch) == DedupFrom(batch, {}, << >>)

\* how many items the generator is asked for
Asked(r, shortfall) ==
    IF r.question_type = "reading_comprehension"
    THEN Max(1, Max(shortfall, 4) \div 4) * QUESTIONS_PER_PASSAGE
    ELSE Max(shortfall, QUESTIONS_PER_BATCH)

\* What the generator can answer with: the stems of the questions of a
\* response (it need not hold the number asked for).
GeneratorBatches == UNION { [1..k -> Stems] : k \in 1..MaxGen }

\* the stems of the responses after _deduplicate
UniqueBatches == { Deduplicate(b) : b \in GeneratorBatches }

\* The outcomes of the generation step: ok = FALSE for a
\* QuestionGenerationError, otherwise the deduplicated response.
\* generate_questions raises on an empty batch,
\* generate_reading_comprehension returns it.
GeneratorOutcomes(r) ==
    { [ok |-> FALSE, stems |-> << >>] }
      \cup { [ok |-> TRUE, stems |-> b] : b \in UniqueBatches }
      \cup (IF r.question_type = "reading_comprehension"
            THEN { [ok |-> TRUE, stems |-> << >>] } ELSE {})

\* the Question rows of a generated batch: _validate_and_create_question
\* stamps the requested type, level and difficulty on every item
Generated(r, stems) ==
    [ i \in 1..Len(stems) |->
        [ question_type |-> r.question_type, level |-> r.level,
          difficulty |-> r.difficulty, stem |-> stems[i] ] ]

Returned(r, count, gathered, result, gen, asked, status) ==
    [ outcome |-> "returned", request |-> r, count |-> count, gathered |-> gathered,
      result |-> result, gen |-> gen, asked |-> asked, status |-> status ]

FailedResultMutant(gathered, count) == << >>
\* the list returned after the except branch: questions[:count]
FailedResult(gathered, count) == Take(gathered, count)

\* the generation step of get_questions for the pool rows `gathered`;
\* `outcomes` are the answers the generator can give and `cap` the rows the
\* questions table may grow to
GenerateStep(r, count, gathered, outcomes, cap) ==
    \E g \in outcomes :
        LET asked == Asked(r, count - Len(gathered))
        IN  IF ~g.ok
            THEN /\ cret' = Returned(r, count, gathered, FailedResult(gathered, count),
                                     "failed", asked, "warning")
                 /\ UNCHANGED dbQuestions
            ELSE LET fresh == Deduplicate(g.stems)
                     ids == [i \in 1..Len(fresh) |-> Len(dbQuestions) + i]
                 IN  /\ Len(dbQuestions) + Len(fresh) <= cap
                     /\ dbQuestions' = dbQuestions \o Generated(r, fresh)
                     /\ cret' = Returned(r, count, gathered, Take(gathered \o ids, count),
                                         "ok", asked, "none")

\* get_questions(student_id, question_type, level, difficulty, count)
GetQuestions(r, count, outcomes, cap) ==
    /\ UNCHANGED seen
    /\ IF count < 0
       THEN \* PostgreSQL rejects a negative LIMIT; the error is not caught
            /\ cret' = [ outcome |-> "raised", request |-> r, count |-> count,
                         gathered |-> << >>, result |-> << >>, gen |-> "not_called",
                         asked |-> 0, status |-> "none" ]
            /\ UNCHANGED dbQuestions
       ELSE \E exact \in Picks(ExactRows(dbQuestions, seen, r), count) :
              IF Len(exact) >= count
              THEN /\ cret' = Returned(r, count, exact, Take(exact, count),
                                       "not_called", 0, "none")
                   /\ UNCHANGED dbQuestions
              ELSE \E more \in Picks(AnyRows(dbQuestions, seen, r), count - Len(exact)) :
                     LET gathered == AppendNew(exact, more)
                     IN  IF Len(gathered) >= count
                         THEN /\ cret' = Returned(r, count, gathered, Take(gathered, count),
                                                  "not_called", 0, "none")
                              /\ UNCHANGED dbQuestions
                         ELSE GenerateStep(r, count, gathered, outcomes, cap)

CallGetQuestions ==
    \E r \in Requests : \E count \in (0 - 1)..MaxCount :
        GetQuestions(r, count, GeneratorOutcomes(r), MaxPool)

\* the student answers a question the last call delivered and the caller
\* saves the answer (save_answer): the question is no longer unseen
AnswerDelivered ==
    /\ cret.outcome = "returned"
    /\ \E i \in RangeOf(cret.result) : i \notin seen /\ seen' = seen \cup {i}
    /\ UNCHANGED <<dbQuestions, cret>>

NoCacheCall ==
    [ outcome |-> "none", request |-> CHOOSE r \in Requests : TRUE, count |-> 0,
      gathered |-> << >>, result |-> << >>, gen |-> "not_called", asked |-> 0,
      status |-> "none" ]

\* an empty questions table
InitCache ==
    /\ dbQuestions = << >>
    /\ seen = {}
    /\ cret = NoCacheCall

NextCache ==
    \/ CallGetQuestions /\ UNCHANGED levelVars /\ UNCHANGED runVars
    \/ AnswerDelivered /\ UNCHANGED levelVars /\ UNCHANGED runVars

(***************************************************************************)
(* config.py: the test structure                                           *)
(***************************************************************************)
SectionConfig(name, count, minutes, types) ==
    [ name |-> name, question_count |-> count, time_minutes |-> minutes,
      question_types |-> types ]

ELEMENTARY_SECTIONS ==
    << SectionConfig("Math", 30, 30, <<"arithmetic", "geometry", "word_problem">>),
       SectionConfig("Verbal", 30, 20, <<"synonym", "analogy">>),
       SectionConfig("Reading", 28, 30, <<"reading_comprehension">>) >>

MIDDLE_SECTIONS ==
    << SectionConfig("Quantitative 1", 25, 30, <<"arithmetic", "algebra", "geometry">>),
       SectionConfig("Reading", 40, 40, <<"reading_comprehension">>),
       SectionConfig("Verbal", 60, 30, <<"synonym", "analogy">>),
       SectionConfig("Quantitative 2", 25, 30, <<"arithmetic", "algebra", "geometry">>) >>

\* penalty_amount is held in quarters of a point (0.25 is 1)
LEVEL_CONFIGS ==
    [ elementary |-> [ sections |-> ELEMENTARY_SECTIONS, score_min |-> 300,
                       score_max |-> 600, has_penalty |-> FALSE, penalty_amount |-> 0 ],
      middle |-> [ sections |-> MIDDLE_SECTIONS, score_min |-> 440,
                   score_max |-> 710, has_penalty |-> TRUE, penalty_amount |-> 1 ] ]

(***************************************************************************)
(* scoring.py.  A raw score is held in quarters of a point.                *)
(***************************************************************************)
\* Python's round(num / den) for num >= 0, den > 0: to the nearest integer,
\* a tie to the even one
RoundHalfEven(num, den) ==
    LET f == num \div den
        r == num % den
    IN  IF 2 * r > den THEN f + 1
        ELSE IF 2 * r < den THEN f
        ELSE IF f % 2 = 0 THEN f ELSE f + 1

\* the selected_answer of a skipped question (None)
NoSelection == "None"

CorrectCount(ans) == Cardinality({ i \in 1..Len(ans) : ans[i].is_correct })
WrongCount(ans) ==
    Cardinality({ i \in 1..Len(ans) :
                    ans[i].selected_answer # NoSelection /\ ~ans[i].is_correct })
SkippedCountMutant(ans) ==
    Cardinality({ i \in 1..Len(ans) : ~ans[i].is_correct })
SkippedCount(ans) ==
    Cardinality({ i \in 1..Len(ans) : ans[i].selected_answer = NoSelection })

RawScoreMutant(ans, level) ==
    LET cfg == LEVEL_CONFIGS[level]
    IN  4 * CorrectCount(ans)
          - (IF cfg.has_penalty THEN WrongCount(ans) * cfg.penalty_amount ELSE 0)

\* calculate_raw_score: max(0.0, correct - wrong * penalty), in quarters
RawScore(ans, level) ==
    LET cfg == LEVEL_CONFIGS[level]
    IN  Max(0, 4 * CorrectCount(ans)
                 - (IF cfg.has_penalty THEN WrongCount(ans) * cfg.penalty_amount ELSE 0))

EstimateScaledScoreMutant(raw, total, level) ==
    LET cfg == LEVEL_CONFIGS[level]
    IN  IF total <= 0 THEN cfg.score_min
        ELSE RoundHalfEven(cfg.score_min * 4 * total
                             + Max(0, raw) * (cfg.score_max - cfg.score_min),
                           4 * total)

\* estimate_scaled_score(raw_score, total_questions, level)
EstimateScaledScore(raw, total, level) ==
    LET cfg == LEVEL_CONFIGS[level]
    IN  IF total <= 0 THEN cfg.score_min
        ELSE RoundHalfEven(cfg.score_min * 4 * total
                             + Max(0, Min(raw, 4 * total)) * (cfg.score_max - cfg.score_min),
                           4 * total)

\* _fallback_percentile(scaled_score, level)
FallbackPercentile(scaled, level) ==
    LET cfg == LEVEL_CONFIGS[level]
        span == cfg.score_max - cfg.score_min
    IN  IF span = 0 THEN 50
        ELSE Max(1, Min(99, RoundHalfEven((scaled - cfg.score_min) * 98 + span, span)))

\* What open() and json.load() find at PERCENTILE_TABLES_PATH: no file, a
\* file that is not JSON, a JSON array, or a JSON object.  An object is held
\* as its rows [level, section, grade, data], data being the list of
\* breakpoints, each a list of numbers ([score, percentile] when well formed).
MissingFile == [kind |-> "missing", rows |-> << >>]

\* a value a call returns, or the exception that leaves it
Returns(v) == [outcome |-> "returned", value |-> v]
Raises == [outcome |-> "raised", value |-> None]

\* tables.get(level, {}).get(section_name, {}).get(str(grade), [])
GradeData(file, level, name, grade) ==
    LET m == { i \in 1..Len(file.rows) :
                 /\ file.rows[i].level = level
                 /\ file.rows[i].section = name
                 /\ file.rows[i].grade = grade }
    IN  IF m = {} THEN << >> ELSE file.rows[CHOOSE i \in m : TRUE].data

InterpolateReversed(gd, scaled) ==
    LET n == Len(gd)
        hit == { i \in 1..(n - 1) : gd[i][1] <= scaled /\ scaled <= gd[i + 1][1] }
        i == CHOOSE k \in hit : \A j \in hit : k <= j
    IN  IF \E k \in 1..n : Len(gd[k]) # 2 THEN Raises
        ELSE IF scaled <= gd[1][1] THEN Returns(gd[1][2])
        ELSE IF scaled >= gd[n][1] THEN Returns(gd[n][2])
        ELSE IF hit = {} THEN Returns(gd[n][2])
        ELSE IF gd[i + 1][1] = gd[i][1] THEN Returns(gd[i][2])
        ELSE Returns(RoundHalfEven(gd[i + 1][2] * (gd[i + 1][1] - gd[i][1])
                                     - (scaled - gd[i][1]) * (gd[i + 1][2] - gd[i][2]),
                                   gd[i + 1][1] - gd[i][1]))

InterpolateStepwise(gd, scaled) ==
    LET n == Len(gd)
        hit == { i \in 1..(n - 1) : gd[i][1] <= scaled /\ scaled <= gd[i + 1][1] }
        i == CHOOSE k \in hit : \A j \in hit : k <= j
    IN  IF \E k \in 1..n : Len(gd[k]) # 2 THEN Raises
        ELSE IF scaled <= gd[1][1] THEN Returns(gd[1][2])
        ELSE IF scaled >= gd[n][1] THEN Returns(gd[n][2])
        ELSE IF hit = {} THEN Returns(gd[n][2])
        ELSE Returns(gd[i][2])

\* the part of lookup_percentile after a non-empty grade_data is found: the
\* two end tests, then the loop over neighbouring breakpoints, which unpacks
\* both breakpoints of a step before it compares
Interpolate(gd, scaled) ==
    LET n == Len(gd)
        bad(i) == Len(gd[i]) # 2 \/ Len(gd[i + 1]) # 2
        stop == { i \in 1..(n - 1) :
                    bad(i) \/ (gd[i][1] <= scaled /\ scaled <= gd[i + 1][1]) }
        i == CHOOSE k \in stop : \A j \in stop : k <= j
    IN  IF Len(gd[1]) < 1 THEN Raises
        ELSE IF scaled <= gd[1][1]
        THEN (IF Len(gd[1]) < 2 THEN Raises ELSE Returns(gd[1][2]))
        ELSE IF Len(gd[n]) < 1 THEN Raises
        ELSE IF scaled >= gd[n][1]
        THEN (IF Len(gd[n]) < 2 THEN Raises ELSE Returns(gd[n][2]))
        ELSE IF stop = {}
        THEN (IF Len(gd[n]) < 2 THEN Raises ELSE Returns(gd[n][2]))
        ELSE IF bad(i) THEN Raises
        ELSE IF gd[i + 1][1] = gd[i][1] THEN Returns(gd[i][2])
        ELSE Returns(RoundHalfEven(gd[i][2] * (gd[i + 1][1] - gd[i][1])
                                     + (scaled - gd[i][1]) * (gd[i + 1][2] - gd[i][2]),
                                   gd[i + 1][1] - gd[i][1]))

LookupPercentileExactGrade(file, scaled, level, name, grade) ==
    LET gd == GradeData(file, level, name, grade)
    IN  IF file.kind \in {"missing", "unparsable"}
        THEN Returns(FallbackPercentile(scaled, level))
        ELSE IF file.kind = "array" THEN Raises
        ELSE IF gd = << >> THEN Returns(FallbackPercentile(scaled, level))
        ELSE Interpolate(gd, scaled)
\* lookup_percentile(scaled_score, level, section_name, grade) when the
\* tables path holds `file`
LookupPercentileIn(file, scaled, level, name, grade) ==
    LET direct == GradeData(file, level, name, grade)
        near == { g \in (grade - 1)..(grade + 1) : GradeData(file, level, name, g) # << >> }
        gd == IF direct # << >> THEN direct
              ELSE IF near = {} THEN << >>
              ELSE GradeData(file, level, name, CHOOSE g \in near : \A h \in near : g <= h)
    IN  IF file.kind \in {"missing", "unparsable"}
        THEN Returns(FallbackPercentile(scaled, level))
        ELSE IF file.kind = "array" THEN Raises
        ELSE IF gd = << >> THEN Returns(FallbackPercentile(scaled, level))
        ELSE Interpolate(gd, scaled)

\* lookup_percentile as the console flows meet it: the percentile tables file
\* is not part of the sources, open() fails and the except branch answers
LookupPercentile(scaled, level, name, grade) ==
    LookupPercentileIn(MissingFile, scaled, level, name, grade).value

\* map_section_name_to_score_field
MapSectionNameToScoreField(name) ==
    IF name = "Verbal" THEN "verbal"
    ELSE IF name \in {"Quantitative 1", "Quantitative 2", "Math"} THEN "quantitative"
    ELSE IF name = "Reading" THEN "reading"
    ELSE "verbal"

\* the SectionResult of _score_section
SectionResult(section, ans, level, grade) ==
    LET raw == RawScore(ans, level)
        scaled == EstimateScaledScore(raw, section.question_count, level)
    IN  [ section_name |-> section.name, raw_score |-> raw, scaled_score |-> scaled,
          percentile |-> LookupPercentile(scaled, level, section.name, grade),
          total_questions |-> section.question_count,
          correct_count |-> CorrectCount(ans), wrong_count |-> WrongCount(ans),
          skipped_count |-> SkippedCount(ans) ]

RawField == [ verbal |-> "verbal_raw", quantitative |-> "quantitative_raw",
              reading |-> "reading_raw" ]
ScaledField == [ verbal |-> "verbal_scaled", quantitative |-> "quantitative_scaled",
                 reading |-> "reading_scaled" ]
PercentileField == [ verbal |-> "verbal_percentile",
                     quantitative |-> "quantitative_percentile",
                     reading |-> "reading_percentile" ]

\* Python's `x or 0`
OrZero(x) == IF x = None THEN 0 ELSE x

\* setattr of the three score fields of a category on the session object
WithScores(session, f, raw, scaled, pct) ==
    [ session EXCEPT ![RawField[f]] = raw, ![ScaledField[f]] = scaled,
                     ![PercentileField[f]] = pct ]

AggregateOverwrite(session, results) ==
    LET of(f) == { i \in 1..Len(results) :
                     MapSectionNameToScoreField(results[i].section_name) = f }
        last(f) == results[CHOOSE i \in of(f) : \A j \in of(f) : j <= i]
        put(f, s) == IF of(f) = {} THEN s
                     ELSE WithScores(s, f, last(f).raw_score, last(f).scaled_score,
                                     last(f).percentile)
    IN  put("reading", put("quantitative", put("verbal", session)))

\* the aggregation loop of _finalize_full_test over section_results
RECURSIVE Aggregate(_, _)
Aggregate(session, results) ==
    IF results = << >> THEN session
    ELSE LET r == Head(results)
             f == MapSectionNameToScoreField(r.section_name)
             next ==
               IF session[RawField[f]] # None /\ f = "quantitative"
               THEN WithScores(session, f,
                               session[RawField[f]] + r.raw_score,
                               (OrZero(session[ScaledField[f]]) + r.scaled_score) \div 2,
                               (OrZero(session[PercentileField[f]]) + r.percentile) \div 2)
               ELSE WithScores(session, f, r.raw_score, r.scaled_score, r.percentile)
         IN  Aggregate(next, Tail(results))

TotalScaledMutant(session) ==
    OrZero(session.verbal_scaled) + OrZero(session.reading_scaled)
\* the total loop: the scaled scores that are set and not zero
TotalScaled(session) ==
    OrZero(session.verbal_scaled) + OrZero(session.quantitative_scaled)
        + OrZero(session.reading_scaled)

\* the session object _finalize_full_test hands to update_session
FinalizedSession(session, results) ==
    LET agg == Aggregate(session, results)
    IN  [ agg EXCEPT !.total_scaled = TotalScaled(agg), !.completed = TRUE ]

\* the session object run_section_practice hands to update_session
PracticeSession(session, result) ==
    LET f == MapSectionNameToScoreField(result.section_name)
    IN  [ WithScores(session, f, result.raw_score, result.scaled_score, result.percentile)
            EXCEPT !.total_scaled = result.scaled_score, !.completed = TRUE ]

UpdateSessionMutant(db, session) == db
\* update_session: UPDATE test_sessions SET ... WHERE id = session.id
UpdateSession(db, session) ==
    [ i \in 1..Len(db) |->
        IF db[i].id = session.id
        THEN [ session EXCEPT !.updates = db[i].updates + 1 ]
        ELSE db[i] ]

(***************************************************************************)
(* timer.py: the Timer object and its thread                               *)
(***************************************************************************)
dbVars == <<student, mastery, answerLog, dbSessions, ret, dbQuestions, seen, cret>>

\* timer = None
NoTimer ==
    [ on |-> FALSE, total_seconds |-> 0, remaining |-> 0, time_up |-> FALSE,
      stop |-> FALSE, tpc |-> "none" ]

\* Timer(total_seconds) followed by start(): the thread is at the while test
NewTimer(total) ==
    [ on |-> TRUE, total_seconds |-> total, remaining |-> total, time_up |-> FALSE,
      stop |-> FALSE, tpc |-> "loop" ]

TimerLoopIgnoresRemaining ==
    /\ timer.tpc = "loop"
    /\ timer' = [ timer EXCEPT !.tpc = IF ~timer.stop THEN "sleep" ELSE "done" ]
    /\ UNCHANGED <<pc, flow, questions, qi, answers, shown, saved>>
    /\ UNCHANGED dbVars

TimerCheckThenSleep ==
    /\ timer.tpc = "check"
    /\ timer' = [ timer EXCEPT !.time_up = @ \/ timer.remaining <= 0,
                               !.tpc = IF timer.remaining > 0 THEN "sleep" ELSE "done" ]
    /\ UNCHANGED <<pc, flow, questions, qi, answers, shown, saved>>
    /\ UNCHANGED dbVars

\* while not self._stop_event.is_set() and self.remaining > 0
TimerLoop ==
    /\ timer.tpc = "loop"
    /\ timer' = [ timer EXCEPT !.tpc = IF ~timer.stop /\ timer.remaining > 0
                                       THEN "sleep" ELSE "done" ]
    /\ UNCHANGED <<pc, flow, questions, qi, answers, shown, saved>>
    /\ UNCHANGED dbVars

\* time.sleep(1); with self._lock: self.remaining -= 1; current = self.remaining
TimerTick ==
    /\ timer.tpc = "sleep"
    /\ timer' = [ timer EXCEPT !.remaining = @ - 1, !.tpc = "check" ]
    /\ UNCHANGED <<pc, flow, questions, qi, answers, shown, saved>>
    /\ UNCHANGED dbVars

\* if current <= 0: self.time_up.set()   (only the thread writes remaining,
\* so current is still equal to it)
TimerCheck ==
    /\ timer.tpc = "check"
    /\ timer' = [ timer EXCEPT !.time_up = @ \/ timer.remaining <= 0, !.tpc = "loop" ]
    /\ UNCHANGED <<pc, flow, questions, qi, answers, shown, saved>>
    /\ UNCHANGED dbVars

(***************************************************************************)
(* test_runner.py: _run_section                                            *)
(***************************************************************************)
\* the seconds of a section's countdown; countdowns longer than MaxSeconds
\* ticks are cut to MaxSeconds
TimerSeconds(section) == Min(section.time_minutes * 60, MaxSeconds)

\* what get_answer_input can return: no answer or a letter
Choices == {NoSelection, "A", "B"}

\* Answer(selected_answer=None, is_correct=False, time_spent_seconds=0)
SkippedAnswer(q) ==
    [ question_id |-> q.id, selected_answer |-> NoSelection, is_correct |-> FALSE,
      time_spent_seconds |-> 0 ]

SkippedAnswersMutant(qs, i) ==
    [ k \in 1..(Len(qs) - i) |-> SkippedAnswer(qs[i + k]) ]
\* the answers appended for questions[i - 1:], i counting from 1
SkippedAnswers(qs, i) ==
    [ k \in 1..(Len(qs) - i + 1) |-> SkippedAnswer(qs[i - 1 + k]) ]

\* the Answer built from the student's input
GivenAnswer(q, selected, elapsed) ==
    [ question_id |-> q.id, selected_answer |-> selected,
      is_correct |-> IF selected # NoSelection
                     THEN selected = q.correct_answer ELSE FALSE,
      time_spent_seconds |-> elapsed ]

\* entry of _run_section: the empty answers list, the timer when the section
\* is timed
RunSectionStart ==
    /\ pc = "run_section"
    /\ answers' = << >>
    /\ shown' = << >>
    /\ qi' = 1
    /\ timer' = IF flow.timed /\ flow.section.time_minutes > 0 /\ flow.timer_enabled
                THEN NewTimer(TimerSeconds(flow.section))
                ELSE NoTimer
    /\ pc' = "poll"
    /\ UNCHANGED <<flow, questions, saved>>
    /\ UNCHANGED dbVars

\* the head of the for loop and the time-up check before a question
Poll ==
    /\ pc = "poll"
    /\ IF qi > Len(questions)
       THEN /\ pc' = "stop_timer"
            /\ UNCHANGED answers
       ELSE IF timer.on /\ timer.time_up
       THEN /\ answers' = answers \o SkippedAnswers(questions, qi)
            /\ pc' = "stop_timer"
       ELSE /\ pc' = "input"
            /\ UNCHANGED answers
    /\ UNCHANGED <<flow, questions, qi, shown, timer, saved>>
    /\ UNCHANGED dbVars

\* show_question, get_answer_input and the Answer record of the question
AnswerQuestion(selected, elapsed) ==
    /\ pc = "input"
    /\ answers' = Append(answers, GivenAnswer(questions[qi], selected, elapsed))
    /\ shown' = Append(shown, [question_id |-> questions[qi].id, selected |-> selected])
    /\ qi' = qi + 1
    /\ pc' = "poll"
    /\ UNCHANGED <<flow, questions, timer, saved>>
    /\ UNCHANGED dbVars

\* if timer: timer.stop() -- the stop event, then the join of the thread
StopTimer ==
    /\ pc = "stop_timer"
    /\ IF timer.on
       THEN /\ timer' = [timer EXCEPT !.stop = TRUE]
            /\ pc' = "join"
       ELSE /\ pc' = "section_done"
            /\ UNCHANGED timer
    /\ UNCHANGED <<flow, questions, qi, answers, shown, saved>>
    /\ UNCHANGED dbVars

\* join(timeout=2) returns when the thread has left its loop, which it does
\* within the sleep(1) it may be in
JoinTimer ==
    /\ pc = "join"
    /\ timer.tpc = "done"
    /\ pc' = "section_done"
    /\ UNCHANGED <<flow, questions, qi, answers, shown, timer, saved>>
    /\ UNCHANGED dbVars

(***************************************************************************)
(* test_runner.py: the flows run_full_test, run_section_practice and       *)
(* run_quick_drill.  The pool cache is modelled on its own (SpecCache) and  *)
(* the questions table is not followed here: QuestionIds stands for the    *)
(* rows the student has not seen, and a fetch hands the flow any list the  *)
(* cache can return for the request, unseen questions of a type of the     *)
(* section, none twice.                                                    *)
(***************************************************************************)
\* the ids of the questions the cache can hand out during the flow
QuestionIds == 1..MaxDelivered

\* a question of the pool; its correct answer alternates with its id
Question(id, type) ==
    [ id |-> id, question_type |-> type,
      correct_answer |-> IF id % 2 = 1 THEN "A" ELSE "B" ]

\* the first type of the request that the model tracks
TrackedType(types) ==
    types[CHOOSE i \in 1..Len(types) :
            types[i] \in Topics /\ \A j \in 1..(i - 1) : types[j] \notin Topics]

\* the k lowest ids of S, ascending
RECURSIVE Lowest(_, _)
Lowest(S, k) ==
    IF k = 0 \/ S = {} THEN << >>
    ELSE LET m == CHOOSE x \in S : \A y \in S : x <= y
         IN  <<m>> \o Lowest(S \ {m}, k - 1)

\* The lists a fetch of at most `limit` questions of `types` can return:
\* get_unseen_questions excludes the ids of the answers table, the pool may
\* run short and the generator may fail, so any number from none to the
\* limit comes back.
Fetched(types, limit) ==
    LET unseen == QuestionIds \ seen
        most == Min(Min(limit, MaxQuestions), Cardinality(unseen))
    IN  { [ i \in 1..k |-> Question(Lowest(unseen, k)[i], TrackedType(types)) ] :
            k \in 0..most }

\* the locals of a flow before it starts
NoSection == SectionConfig("none", 0, 0, << >>)

NoFlow ==
    [ mode |-> "none", session |-> NewSession(0, "none"), sec |-> 0,
      section |-> NoSection, timed |-> FALSE, timer_enabled |-> TRUE,
      count |-> 0, types |-> << >>,
      section_results |-> << >>, all_answers |-> << >>, all_questions |-> << >> ]

\* create_session: INSERT ... RETURNING id
CreateSession(mode) ==
    LET s == NewSession(Len(dbSessions) + 1, mode)
    IN  /\ dbSessions' = <<s>> \o dbSessions
        /\ flow' = [flow EXCEPT !.mode = mode, !.session = s, !.sec = 1]

\* the question_type of the question an answer belongs to (q_map)
TypeOf(qs, id) ==
    qs[CHOOSE i \in 1..Len(qs) :
         qs[i].id = id /\ \A j \in (i + 1)..Len(qs) : qs[j].id # id].question_type

\* the by_type grouping of update_after_answers, as counts
BatchOfAnswers(ans, qs) ==
    [ t \in Topics |->
        LET mine == { i \in 1..Len(ans) :
                        /\ \E j \in 1..Len(qs) : qs[j].id = ans[i].question_id
                        /\ TypeOf(qs, ans[i].question_id) = t }
        IN  [ n |-> Cardinality(mine),
              c |-> Cardinality({ i \in mine : ans[i].is_correct }) ] ]

SavedRowsNone(session, ans) == << >>

SavedRowsMutant(session, ans) ==
    [ i \in 1..Min(Len(ans), 1) |->
        [ session_id |-> session.id, question_id |-> ans[i].question_id,
          selected_answer |-> ans[i].selected_answer, is_correct |-> ans[i].is_correct,
          time_spent_seconds |-> ans[i].time_spent_seconds ] ]
\* for a in answers: a.session_id = session.id; save_answer(a)
SavedRows(session, ans) ==
    [ i \in 1..Len(ans) |->
        [ session_id |-> session.id, question_id |-> ans[i].question_id,
          selected_answer |-> ans[i].selected_answer, is_correct |-> ans[i].is_correct,
          time_spent_seconds |-> ans[i].time_spent_seconds ] ]

\* the answers table after the save loop, in its three views
SaveAnswers(ans, qs) ==
    /\ saved' = saved \o SavedRows(flow.session, ans)
    /\ seen' = seen \cup { SavedRows(flow.session, ans)[i].question_id :
                             i \in 1..Len(SavedRows(flow.session, ans)) }
    /\ answerLog' = SavedLog(answerLog, BatchOfAnswers(SavedRows(flow.session, ans), qs))

\* run_full_test up to the session row: "Ready to begin?", create_session
StartFullTest(confirm) ==
    /\ pc = "menu"
    /\ IF ~confirm
       THEN /\ pc' = "returned"
            /\ flow' = [flow EXCEPT !.mode = "full_test"]
            /\ UNCHANGED dbSessions
       ELSE /\ CreateSession("full_test")
            /\ pc' = IF student.level = "middle" THEN "writing_first" ELSE "section_intro"
    /\ UNCHANGED <<student, mastery, answerLog, ret>>
    /\ UNCHANGED cacheVars
    /\ UNCHANGED <<questions, qi, answers, shown, timer, saved>>

\* _run_writing_section before the sections (middle level); it saves a
\* writing sample or reports that it was skipped
WritingFirst ==
    /\ pc = "writing_first"
    /\ pc' = "section_intro"
    /\ UNCHANGED <<flow, questions, qi, answers, shown, timer, saved>>
    /\ UNCHANGED dbVars

SectionIntroMutant ==
    /\ pc = "section_intro"
    /\ LET sections == LEVEL_CONFIGS[student.level].sections
       IN  IF flow.sec > Len(sections)
           THEN /\ pc' = "after_sections"
                /\ UNCHANGED <<flow, questions>>
           ELSE \E qs \in Fetched(sections[flow.sec].question_types,
                                  sections[flow.sec].question_count) :
                  IF qs = << >>
                  THEN /\ pc' = "after_sections"
                       /\ UNCHANGED <<flow, questions>>
                  ELSE /\ questions' = qs
                       /\ flow' = [flow EXCEPT !.section = sections[flow.sec],
                                               !.timed = TRUE]
                       /\ pc' = "run_section"
    /\ UNCHANGED <<qi, answers, shown, timer, saved>>
    /\ UNCHANGED dbVars
\* the head of the section loop: the intro and get_mixed_questions; a
\* section that gets no question is skipped
SectionIntro ==
    /\ pc = "section_intro"
    /\ LET sections == LEVEL_CONFIGS[student.level].sections
       IN  IF flow.sec > Len(sections)
           THEN /\ pc' = "after_sections"
                /\ UNCHANGED <<flow, questions>>
           ELSE \E qs \in Fetched(sections[flow.sec].question_types,
                                  sections[flow.sec].question_count) :
                  IF qs = << >>
                  THEN /\ flow' = [flow EXCEPT !.sec = @ + 1]
                       /\ pc' = "section_intro"
                       /\ UNCHANGED questions
                  ELSE /\ questions' = qs
                       /\ flow' = [flow EXCEPT !.section = sections[flow.sec],
                                               !.timed = TRUE]
                       /\ pc' = "run_section"
    /\ UNCHANGED <<qi, answers, shown, timer, saved>>
    /\ UNCHANGED dbVars

\* _score_section with its save loop, the appends of the section loop, and
\* "Continue to next section?" when the section is not the last
ScoreFullSection ==
    /\ pc = "section_done"
    /\ flow.mode = "full_test"
    /\ LET sections == LEVEL_CONFIGS[student.level].sections
           last == flow.sec >= Len(sections)
           result == SectionResult(flow.section, answers, student.level, student.grade)
       IN  \E goOn \in (IF last THEN {TRUE} ELSE BOOLEAN) :
             /\ flow' = [flow EXCEPT !.section_results = Append(@, result),
                                     !.all_answers = @ \o answers,
                                     !.all_questions = @ \o questions,
                                     !.sec = @ + 1]
             /\ pc' = IF goOn THEN "section_intro" ELSE "after_sections"
    /\ SaveAnswers(answers, questions)
    /\ UNCHANGED <<student, mastery, dbSessions, ret, dbQuestions, cret>>
    /\ UNCHANGED <<questions, qi, answers, shown, timer>>

\* _run_writing_section after the sections (elementary level, when a
\* section was scored)
WritingLast ==
    /\ pc = "after_sections"
    /\ pc' = "finalize"
    /\ UNCHANGED <<flow, questions, qi, answers, shown, timer, saved>>
    /\ UNCHANGED dbVars

\* _finalize_full_test: the aggregation, completed_at and update_session
FinalizeFullTest ==
    /\ pc = "finalize"
    /\ LET s == FinalizedSession(flow.session, flow.section_results)
       IN  /\ dbSessions' = UpdateSession(dbSessions, s)
           /\ flow' = [flow EXCEPT !.session = s]
    /\ pc' = "update_mastery"
    /\ UNCHANGED <<student, mastery, answerLog, ret>>
    /\ UNCHANGED cacheVars
    /\ UNCHANGED <<questions, qi, answers, shown, timer, saved>>

\* _update_mastery(answers, questions): update_after_answers over the rows
\* in storage
UpdateMastery ==
    /\ pc = "update_mastery"
    /\ EngineUpdate(BatchOfAnswers(flow.all_answers, flow.all_questions), answerLog)
    /\ pc' = IF flow.mode = "full_test" THEN "replenish"
             ELSE IF flow.mode = "section_practice" THEN "review"
             ELSE "returned"
    /\ UNCHANGED <<answerLog, dbSessions>>
    /\ UNCHANGED cacheVars
    /\ UNCHANGED <<flow, questions, qi, answers, shown, timer, saved>>

\* check_and_replenish and the return of run_full_test
Replenish ==
    /\ pc = "replenish"
    /\ pc' = "returned"
    /\ UNCHANGED <<flow, questions, qi, answers, shown, timer, saved>>
    /\ UNCHANGED dbVars

\* run_section_practice up to the session row: the section menu (the last
\* option goes back), create_session
StartSectionPractice(choice) ==
    /\ pc = "menu"
    /\ LET sections == LEVEL_CONFIGS[student.level].sections
       IN  IF choice = Len(sections) + 1
           THEN /\ pc' = "returned"
                /\ flow' = [flow EXCEPT !.mode = "section_practice"]
                /\ UNCHANGED dbSessions
           ELSE LET s == NewSession(Len(dbSessions) + 1, "section_practice")
                IN  /\ dbSessions' = <<s>> \o dbSessions
                    /\ flow' = [flow EXCEPT !.mode = "section_practice", !.session = s,
                                            !.section = sections[choice], !.timed = TRUE]
                    /\ pc' = "practice_fetch"
    /\ UNCHANGED <<student, mastery, answerLog, ret>>
    /\ UNCHANGED cacheVars
    /\ UNCHANGED <<questions, qi, answers, shown, timer, saved>>

\* get_mixed_questions of the chosen section; the flow returns when the list
\* is empty
PracticeFetch ==
    /\ pc = "practice_fetch"
    /\ \E qs \in Fetched(flow.section.question_types, flow.section.question_count) :
         IF qs = << >>
         THEN /\ pc' = "returned"
              /\ UNCHANGED questions
         ELSE /\ questions' = qs
              /\ pc' = "run_section"
    /\ UNCHANGED <<flow, qi, answers, shown, timer, saved>>
    /\ UNCHANGED dbVars

\* _score_section with its save loop, then the session fields, completed_at
\* and update_session
ScorePractice ==
    /\ pc = "section_done"
    /\ flow.mode = "section_practice"
    /\ LET result == SectionResult(flow.section, answers, student.level, student.grade)
           s == PracticeSession(flow.session, result)
       IN  /\ dbSessions' = UpdateSession(dbSessions, s)
           /\ flow' = [flow EXCEPT !.session = s, !.section_results = <<result>>,
                                   !.all_answers = answers, !.all_questions = questions]
    /\ SaveAnswers(answers, questions)
    /\ pc' = "update_mastery"
    /\ UNCHANGED <<student, mastery, ret, dbQuestions, cret>>
    /\ UNCHANGED <<questions, qi, answers, shown, timer>>

\* the offer to review the missed questions and the return of
\* run_section_practice
Review ==
    /\ pc = "review"
    /\ pc' = "returned"
    /\ UNCHANGED <<flow, questions, qi, answers, shown, timer, saved>>
    /\ UNCHANGED dbVars

\* the selected_types the drill menus can give: one type, or a category mix
DrillSelections == { <<"arithmetic">>, <<"synonym", "analogy">> }

\* the counts the drill prompt is answered with (the prompt's range of 10 to
\* 20 questions cut down to lists of at most MaxQuestions)
DrillCounts == 1..MaxQuestions

\* run_quick_drill up to the session row: the menus, the count, "Use a
\* timer?" when timers are enabled, create_session
StartQuickDrill(types, count, confirm) ==
    /\ pc = "menu"
    /\ LET s == NewSession(Len(dbSessions) + 1, "quick_drill")
       IN  /\ dbSessions' = <<s>> \o dbSessions
           /\ flow' = [flow EXCEPT !.mode = "quick_drill", !.session = s,
                                   !.types = types, !.count = count,
                                   !.timed = IF flow.timer_enabled THEN confirm ELSE FALSE]
    /\ pc' = "drill_fetch"
    /\ UNCHANGED <<student, mastery, answerLog, ret>>
    /\ UNCHANGED cacheVars
    /\ UNCHANGED <<questions, qi, answers, shown, timer, saved>>

\* the get_questions loop over the selected types; the flow returns when
\* nothing came back, otherwise questions[:count] and the drill's section
DrillFetch ==
    /\ pc = "drill_fetch"
    /\ \E qs \in Fetched(flow.types, flow.count) :
         IF qs = << >>
         THEN /\ pc' = "returned"
              /\ UNCHANGED <<questions, flow>>
         ELSE /\ questions' = Take(qs, flow.count)
              /\ flow' = [flow EXCEPT !.section =
                            SectionConfig("Quick Drill", Len(Take(qs, flow.count)),
                                          IF flow.timed THEN flow.count * 2 ELSE 0,
                                          flow.types)]
              /\ pc' = "run_section"
    /\ UNCHANGED <<qi, answers, shown, timer, saved>>
    /\ UNCHANGED dbVars

\* the drill's save loop, completed_at and update_session
ScoreDrill ==
    /\ pc = "section_done"
    /\ flow.mode = "quick_drill"
    /\ LET s == [flow.session EXCEPT !.completed = TRUE]
       IN  /\ dbSessions' = UpdateSession(dbSessions, s)
           /\ flow' = [flow EXCEPT !.session = s,
                                   !.all_answers = answers, !.all_questions = questions]
    /\ SaveAnswers(answers, questions)
    /\ pc' = "update_mastery"
    /\ UNCHANGED <<student, mastery, ret, dbQuestions, cret>>
    /\ UNCHANGED <<questions, qi, answers, shown, timer>>

\* no flow is running and no section is in progress
InitIdle ==
    /\ pc = "idle"
    /\ flow = NoFlow
    /\ questions = << >>
    /\ qi = 0
    /\ answers = << >>
    /\ shown = << >>
    /\ timer = NoTimer
    /\ saved = << >>

NoCall == [ op |-> "none", topic_events |-> [t \in Topics |-> "none"],
            mastery_event |-> "none", full_tests |-> 0 ]

\* a finished full test with the three percentiles v, q, r
Session(id, v, q, r) ==
    [ NewSession(id, "full_test") EXCEPT
        !.completed = TRUE, !.updates = 1,
        !.verbal_percentile = v, !.quantitative_percentile = q,
        !.reading_percentile = r ]

ThreeHigh == << Session(3, 85, 90, 99), Session(2, 85, 85, 85), Session(1, 99, 85, 90) >>

\* A LevelingEngine is built per call over the stored rows: a new student
\* with no mastery record and no answer, with or without three strong full
\* tests on record.
InitDifficulty ==
    /\ student = [level |-> "elementary", grade |-> 3]
    /\ mastery = [t \in Topics |-> NewMastery]
    /\ answerLog = [t \in Topics |-> NoAnswers]
    /\ dbSessions \in {<< >>, ThreeHigh}
    /\ ret = NoCall
    /\ InitCache
    /\ InitIdle

NextDifficulty == UpdateSmall /\ UNCHANGED cacheVars /\ UNCHANGED runVars

SpecDifficulty == InitDifficulty /\ [][NextDifficulty]_vars

(***************************************************************************)
(* The mastery check over longer histories: batches of ten answers and     *)
(* full tests being recorded                                               *)
(***************************************************************************)
CoarseEntries ==
    { [n |-> 0, c |-> 0], [n |-> 10, c |-> 4], [n |-> 10, c |-> 8], [n |-> 10, c |-> 9] }

UpdateCoarse ==
    \E batch \in { BatchOver(f) : f \in [DrilledTopics -> CoarseEntries] } :
        /\ \E t \in Topics : batch[t].n > 0
        /\ Answered(SavedLog(answerLog, batch), Topics) <= MaxAttemptedCoarse
        /\ UpdateAfterAnswers(batch)

\* the percentiles a finished full test leaves in its test_sessions row: all
\* at the bar, one below it, one never set (its section was not scored)
MasteryOutcomes ==
    { <<85, 85, 85>>, <<85, 84, 99>>, <<90, None, 85>> }

\* run_full_test stores a session row (create_session, then update_session
\* from _finalize_full_test); the newest row comes first in the queries
RecordFullTest(outcomes) ==
    /\ Len(dbSessions) < MaxSessions
    /\ \E p \in outcomes :
          dbSessions' = << Session(Len(dbSessions) + 1, p[1], p[2], p[3]) >> \o dbSessions
    /\ UNCHANGED <<student, mastery, answerLog, ret>>

InitMastery ==
    /\ student \in Placements
    /\ mastery = [t \in Topics |-> NewMastery]
    /\ answerLog = [t \in Topics |-> NoAnswers]
    /\ dbSessions = << >>
    /\ ret = NoCall
    /\ InitCache
    /\ InitIdle

NextMastery ==
    \/ UpdateCoarse /\ UNCHANGED cacheVars /\ UNCHANGED runVars
    \/ RecordFullTest(MasteryOutcomes) /\ UNCHANGED cacheVars /\ UNCHANGED runVars

SpecMastery == InitMastery /\ [][NextMastery]_vars

(***************************************************************************)
(* leveling.py: check_level_down and level_down                            *)
(***************************************************************************)
\* check_level_down over the stored full tests: the struggling loop stops at
\* the first percentile that is present and at or above the bar
CheckLevelDown(sessions) ==
    LET got == RecentSessions(sessions, LEVEL_DOWN_TEST_COUNT)
        recent == RecentSessions(got, LEVEL_DOWN_TEST_COUNT)
        struggling ==
            ~\E i \in 1..Len(recent) : \E f \in PercentileFields :
                recent[i][f] # None /\ recent[i][f] >= LEVEL_DOWN_PERCENTILE
    IN  IF Len(got) < LEVEL_DOWN_TEST_COUNT THEN "none"
        ELSE IF ~struggling THEN "none"
        ELSE "step_down_offer"

LevelDownStaysInLevel(s) ==
    IF s.level = "middle"
    THEN IF s.grade > 5 THEN [s EXCEPT !.grade = s.grade - 1] ELSE s
    ELSE IF s.level = "elementary"
    THEN IF s.grade > 3 THEN [s EXCEPT !.grade = s.grade - 1] ELSE s
    ELSE s

LevelDownNoFloor(s) ==
    IF s.level = "middle"
    THEN IF s.grade > 5
         THEN [s EXCEPT !.grade = s.grade - 1]
         ELSE [level |-> "elementary", grade |-> 4]
    ELSE [s EXCEPT !.grade = s.grade - 1]

\* level_down: the student row it stores
LevelDown(s) ==
    IF s.level = "middle"
    THEN IF s.grade > 5
         THEN [s EXCEPT !.grade = s.grade - 1]
         ELSE [level |-> "elementary", grade |-> 4]
    ELSE IF s.level = "elementary"
    THEN IF s.grade > 3 THEN [s EXCEPT !.grade = s.grade - 1] ELSE s
    ELSE s

CallCheckLevelDown ==
    /\ ret' = [op |-> "check_level_down", message |-> CheckLevelDown(ftSessions)]
    /\ UNCHANGED <<student, mastery, answerLog, dbSessions>>

CallLevelDown ==
    /\ student' = LevelDown(student)
    /\ ret' = [op |-> "level_down", message |-> "moved_back"]
    /\ UNCHANGED <<mastery, answerLog, dbSessions>>

\* _level_up, which _check_level_mastery calls when its conditions hold: the
\* student row it stores and the message it returns
CallLevelUp ==
    /\ student' = LevelUp(student).student
    /\ ret' = [op |-> "_level_up", message |-> LevelUp(student).event]
    /\ UNCHANGED <<mastery, answerLog, dbSessions>>

\* the percentiles run_full_test can leave in a row: every section scored
\* under the bar, one at the bar, only the first section taken, no section
\* scored at all
LevelDownOutcomes ==
    { <<39, 1, 39>>, <<39, 40, 39>>, <<39, None, None>>, <<None, None, None>> }

InitLevelDown ==
    /\ student \in Placements
    /\ mastery = [t \in Topics |-> NewMastery]
    /\ answerLog = [t \in Topics |-> NoAnswers]
    /\ dbSessions = << >>
    /\ ret = [op |-> "none", message |-> "none"]
    /\ InitCache
    /\ InitIdle

NextLevelDown ==
    \/ RecordFullTest(LevelDownOutcomes) /\ UNCHANGED cacheVars /\ UNCHANGED runVars
    \/ CallCheckLevelDown /\ UNCHANGED cacheVars /\ UNCHANGED runVars
    \/ CallLevelDown /\ UNCHANGED cacheVars /\ UNCHANGED runVars
    \/ CallLevelUp /\ UNCHANGED cacheVars /\ UNCHANGED runVars

SpecLevelDown == InitLevelDown /\ [][NextLevelDown]_vars

(***************************************************************************)
(* update_after_answers for a student whose answer history of a topic is   *)
(* about to outgrow the last-50 window                                     *)
(***************************************************************************)
\* the answer rows the history may grow beyond 2 * (WINDOW - 1)
MaxOverflow == 3

\* 49 answers of a topic, given in batches of 2 to 5 answers with one wrong
\* answer each: no batch reaches DIFFICULTY_UP_THRESHOLD or falls under
\* DIFFICULTY_DOWN_THRESHOLD, so the difficulty is still the default
LongHistories == { [n |-> WINDOW - 1, c |-> 25], [n |-> WINDOW - 1, c |-> 39] }

InitWindow ==
    /\ student = [level |-> "elementary", grade |-> 3]
    /\ answerLog \in { BatchOver(f) : f \in [DrilledTopics -> LongHistories] }
    /\ mastery = [t \in Topics |->
                    IF answerLog[t].n = 0 THEN NewMastery
                    ELSE [ exists |-> TRUE, difficulty_level |-> DIFFICULTY_DEFAULT,
                           total_attempted |-> answerLog[t].n,
                           total_correct |-> answerLog[t].c,
                           last_50_attempted |-> answerLog[t].n,
                           last_50_correct |-> answerLog[t].c ]]
    /\ dbSessions = << >>
    /\ ret = NoCall
    /\ InitCache
    /\ InitIdle

UpdateLong ==
    \E batch \in SmallBatches :
        /\ \E t \in Topics : batch[t].n > 0
        /\ Answered(SavedLog(answerLog, batch), Topics) <= 2 * (WINDOW - 1) + MaxOverflow
        /\ UpdateAfterAnswers(batch)

NextWindow == UpdateLong /\ UNCHANGED cacheVars /\ UNCHANGED runVars

SpecWindow == InitWindow /\ [][NextWindow]_vars

\* the pool cache on its own, for a student whose leveling rows stay put
InitCacheOnly ==
    /\ student = [level |-> "elementary", grade |-> 3]
    /\ mastery = [t \in Topics |-> NewMastery]
    /\ answerLog = [t \in Topics |-> NoAnswers]
    /\ dbSessions = << >>
    /\ ret = NoCall
    /\ InitCache
    /\ InitIdle

SpecCache == InitCacheOnly /\ [][NextCache]_vars

(***************************************************************************)
(* _run_section on its own: called with a questions list, timed or not     *)
(***************************************************************************)
\* the seconds a question can take the student
ElapsedSamples == {0, 2}

\* the section arguments: a timed test section, a drill with and without
\* its timer
SectionArguments ==
    { [section |-> ELEMENTARY_SECTIONS[2], timed |-> TRUE],
      [section |-> SectionConfig("Quick Drill", 2, 4, <<"synonym">>), timed |-> TRUE],
      [section |-> SectionConfig("Quick Drill", 2, 0, <<"synonym">>), timed |-> FALSE] }

InitSection ==
    /\ student = [level |-> "elementary", grade |-> 3]
    /\ mastery = [t \in Topics |-> NewMastery]
    /\ answerLog = [t \in Topics |-> NoAnswers]
    /\ dbSessions = << NewSession(1, "full_test") >>
    /\ ret = NoCall
    /\ InitCache
    /\ pc = "run_section"
    /\ \E a \in SectionArguments : \E enabled \in BOOLEAN :
          flow = [NoFlow EXCEPT !.mode = "full_test", !.session = NewSession(1, "full_test"),
                                !.section = a.section, !.timed = a.timed,
                                !.timer_enabled = enabled]
    /\ \E n \in 1..MaxSectionQuestions :
          questions = [i \in 1..n |-> Question(i, "synonym")]
    /\ qi = 0
    /\ answers = << >>
    /\ shown = << >>
    /\ timer = NoTimer
    /\ saved = << >>

NextSection ==
    \/ RunSectionStart
    \/ Poll
    \/ \E selected \in Choices : \E elapsed \in ElapsedSamples :
          AnswerQuestion(selected, elapsed)
    \/ StopTimer
    \/ JoinTimer
    \/ TimerLoop
    \/ TimerTick
    \/ TimerCheck

SpecSection == InitSection /\ [][NextSection]_vars

(***************************************************************************)
(* A Timer on its own: the thread of _run against a caller that uses the   *)
(* public methods in any order                                             *)
(***************************************************************************)
\* the longest countdown followed tick by tick
MaxCountdown == 3

\* what the caller holds: the last method called, the values the getters
\* returned, and the countdown it read when it first called stop()
NoTimerCall == [ op |-> "none", remaining |-> 0, time_up |-> FALSE, at_stop |-> 0 ]

\* get_remaining(): with self._lock: return self.remaining
CallGetRemaining ==
    /\ pc = "caller"
    /\ ret' = [ ret EXCEPT !.op = "get_remaining", !.remaining = timer.remaining ]
    /\ UNCHANGED <<student, mastery, answerLog, dbSessions>>
    /\ UNCHANGED cacheVars
    /\ UNCHANGED runVars

\* is_time_up(): return self.time_up.is_set()
CallIsTimeUp ==
    /\ pc = "caller"
    /\ ret' = [ ret EXCEPT !.op = "is_time_up", !.time_up = timer.time_up ]
    /\ UNCHANGED <<student, mastery, answerLog, dbSessions>>
    /\ UNCHANGED cacheVars
    /\ UNCHANGED runVars

\* stop(): self._stop_event.set(), then the join when the thread is alive
CallStop ==
    /\ pc = "caller"
    /\ timer' = [ timer EXCEPT !.stop = TRUE ]
    /\ ret' = [ ret EXCEPT !.op = "stop",
                           !.at_stop = IF timer.stop THEN @ ELSE timer.remaining ]
    /\ pc' = IF timer.tpc # "done" THEN "join" ELSE "caller"
    /\ UNCHANGED <<student, mastery, answerLog, dbSessions>>
    /\ UNCHANGED cacheVars
    /\ UNCHANGED <<flow, questions, qi, answers, shown, saved>>

\* self._thread.join(timeout=2): the thread leaves its loop within the
\* sleep(1) it may be in
StopJoined ==
    /\ pc = "join"
    /\ timer.tpc = "done"
    /\ pc' = "caller"
    /\ UNCHANGED <<flow, questions, qi, answers, shown, timer, saved>>
    /\ UNCHANGED dbVars

\* Timer(total_seconds) and start(), inside a session that holds answers
InitTimer ==
    /\ student = [level |-> "elementary", grade |-> 3]
    /\ mastery = [t \in Topics |-> NewMastery]
    /\ answerLog = [t \in Topics |-> NoAnswers]
    /\ dbSessions = << NewSession(1, "full_test") >>
    /\ ret = NoTimerCall
    /\ InitCache
    /\ pc = "caller"
    /\ flow = [NoFlow EXCEPT !.mode = "full_test", !.session = NewSession(1, "full_test"),
                             !.timed = TRUE]
    /\ questions = << Question(1, "synonym") >>
    /\ qi = 1
    /\ answers = << >>
    /\ shown = << >>
    /\ \E total \in 0..MaxCountdown : timer = NewTimer(total)
    /\ saved = << >>

NextTimer ==
    \/ TimerLoop
    \/ TimerTick
    \/ TimerCheck
    \/ CallGetRemaining
    \/ CallIsTimeUp
    \/ CallStop
    \/ StopJoined

SpecTimer == InitTimer /\ [][NextTimer]_vars

\* the thread is scheduled: a sleep(1) returns and the statement after it runs
SpecTimerFair ==
    /\ InitTimer
    /\ [][NextTimer]_vars
    /\ WF_vars(TimerLoop)
    /\ WF_vars(TimerTick)
    /\ WF_vars(TimerCheck)

(***************************************************************************)
(* question_generator.py: _call_api, the request loop with its retries     *)
(***************************************************************************)
\* config.MAX_RETRIES
MAX_RETRIES == 3

\* config.MAX_TOKENS
MAX_TOKENS == 8192

\* what one messages.create call can end in: a response, one of the five
\* exceptions _call_api catches, or any other exception
ApiOutcomes ==
    { "response", "RateLimitError", "APIConnectionError", "InternalServerError",
      "AuthenticationError", "BadRequestError", "OtherError" }

TransientOrBadRequest(outcome) ==
    outcome \in {"RateLimitError", "APIConnectionError", "InternalServerError",
                 "BadRequestError"}

\* the three except clauses that keep the error and sleep
Transient(outcome) ==
    outcome \in {"RateLimitError", "APIConnectionError", "InternalServerError"}

\* wait = (2 ** attempt) * 2
Wait(attempt) == (2 ^ attempt) * 2

\* _call_api entered: max_tokens defaulted when 0, last_error = None, no
\* request made, nothing slept
NoApiCall(max_tokens) ==
    [ op |-> "_call_api",
      max_tokens |-> IF max_tokens = 0 THEN MAX_TOKENS ELSE max_tokens,
      attempt |-> 0, last_error |-> "None", requests |-> << >>,
      slept |-> 0, returned |-> 0, raised |-> "none", message |-> "none" ]

\* for attempt in range(config.MAX_RETRIES): self._rate_limit(); after the
\* loop the raise of "Failed after ... retries"
ApiLoop ==
    /\ pc = "api_loop"
    /\ IF ret.attempt < MAX_RETRIES
       THEN /\ pc' = "api_create"
            /\ UNCHANGED ret
       ELSE /\ pc' = "api_done"
            /\ ret' = [ ret EXCEPT !.raised = "QuestionGenerationError",
                                   !.message = "Failed after retries" ]
    /\ UNCHANGED <<student, mastery, answerLog, dbSessions>>
    /\ UNCHANGED cacheVars
    /\ UNCHANGED <<flow, questions, qi, answers, shown, timer, saved>>

\* self.client.messages.create(...) and the handling of how it ends; the
\* response of the n-th request is known by its number n
ApiCreate(outcome) ==
    /\ pc = "api_create"
    /\ LET sent == Append(ret.requests, outcome)
       IN  IF outcome = "response"
           THEN /\ ret' = [ ret EXCEPT !.requests = sent, !.returned = Len(sent) ]
                /\ pc' = "api_done"
           ELSE IF Transient(outcome)
           THEN /\ ret' = [ ret EXCEPT !.requests = sent, !.last_error = outcome,
                                       !.slept = @ + Wait(ret.attempt),
                                       !.attempt = @ + 1 ]
                /\ pc' = "api_loop"
           ELSE IF outcome = "AuthenticationError"
           THEN /\ ret' = [ ret EXCEPT !.requests = sent,
                                       !.raised = "QuestionGenerationError",
                                       !.message = "Invalid API key" ]
                /\ pc' = "api_done"
           ELSE IF outcome = "BadRequestError"
           THEN /\ ret' = [ ret EXCEPT !.requests = sent,
                                       !.raised = "QuestionGenerationError",
                                       !.message = "Bad request" ]
                /\ pc' = "api_done"
           ELSE /\ ret' = [ ret EXCEPT !.requests = sent, !.raised = outcome ]
                /\ pc' = "api_done"
    /\ UNCHANGED <<student, mastery, answerLog, dbSessions>>
    /\ UNCHANGED cacheVars
    /\ UNCHANGED <<flow, questions, qi, answers, shown, timer, saved>>

InitCallApi ==
    /\ student = [level |-> "elementary", grade |-> 3]
    /\ mastery = [t \in Topics |-> NewMastery]
    /\ answerLog = [t \in Topics |-> NoAnswers]
    /\ dbSessions = << >>
    /\ \E max_tokens \in {0, 1024} : ret = NoApiCall(max_tokens)
    /\ InitCache
    /\ pc = "api_loop"
    /\ flow = NoFlow
    /\ questions = << >>
    /\ qi = 0
    /\ answers = << >>
    /\ shown = << >>
    /\ timer = NoTimer
    /\ saved = << >>

NextCallApi ==
    \/ ApiLoop
    \/ \E outcome \in ApiOutcomes : ApiCreate(outcome)

SpecCallApi == InitCallApi /\ [][NextCallApi]_vars

(***************************************************************************)
(* question_generator.py: _parse_response and the validation of one item   *)
(* of a generated batch.  A text is a sequence of digits, an explanation   *)
(* the sequence of the numbers _extract_numbers finds in it.               *)
(***************************************************************************)
\* the longest batch parsed
MaxItems == 2

Letters == {"A", "B", "C", "D", "E"}

LetterOrder == <<"A", "B", "C", "D", "E">>

\* a JSON null where a string is expected
JsonNull == "null"

\* str.strip() on the stems and letters of the samples
Strip(s) ==
    CASE s = " s " -> "s"
      [] s = " " -> ""
      [] s = "b " -> "b"
      [] OTHER -> s

\* str.upper() on the letters of the samples
Upper(s) ==
    CASE s = "a" -> "A"
      [] s = "b" -> "B"
      [] OTHER -> s

\* sub in text, for str operands
Contains(sub, text) ==
    \E i \in 0..(Len(text) - Len(sub)) :
       \A k \in 1..Len(sub) : text[i + k] = sub[k]

\* the text of the choice of a key in the samples
ChoiceText ==
    [ l \in Letters \cup {"F"} |->
        CASE l = "A" -> <<1, 2>>
          [] l = "B" -> <<5>>
          [] l = "C" -> <<7>>
          [] l = "D" -> <<1, 5>>
          [] l = "E" -> <<9>>
          [] OTHER -> <<0>> ]

\* the key sets of the choices dicts a response can hold
KeySets ==
    { {"A", "B", "C", "D", "E"}, {"A", "B", "C", "D"}, {"A", "B", "C"},
      {"A", "B", "C", "D", "E", "F"}, {"B", "C", "D", "E"} }

\* the items of a response: the fields _validate_and_create_question reads
Items ==
    [ stem : {"", " s ", JsonNull},
      keys : KeySets,
      correct_answer : {"a", "b ", "F", ""},
      explanation : { << >>, << <<3>>, <<5>> >> } ]

\* _try_fix_correct_answer
TryFixCorrectAnswer(choices, correct, explanation, question_type) ==
    IF question_type \notin {"arithmetic", "algebra", "geometry", "word_problem"}
    THEN correct
    ELSE IF explanation = << >>
    THEN correct
    ELSE LET final_answer == explanation[Len(explanation)]
             matching == { i \in 1..5 : /\ LetterOrder[i] \in DOMAIN choices
                                        /\ Contains(final_answer, choices[LetterOrder[i]]) }
         IN  IF Contains(final_answer, choices[correct])
             THEN correct
             ELSE IF matching # {}
             THEN LetterOrder[CHOOSE i \in matching : \A j \in matching : i <= j]
             ELSE correct

\* _validate_and_create_question on an item whose stem is a string: the
\* list of the one Question built, or the empty list for None
ValidateAndCreateQuestion(qd, question_type) ==
    LET stem == Strip(qd.stem)
        choices == [ l \in qd.keys |-> ChoiceText[l] ]
        correct == Upper(Strip(qd.correct_answer))
        filled == [ l \in qd.keys \cup Letters |->
                      IF l \in qd.keys THEN choices[l] ELSE << >> ]
    IN  IF stem = "" THEN << >>
        ELSE IF Cardinality(qd.keys) < 4 THEN << >>
        ELSE IF correct \notin Letters THEN << >>
        ELSE IF correct \notin qd.keys THEN << >>
        ELSE << [ stem |-> stem, choices |-> filled,
                  correct_answer |-> TryFixCorrectAnswer(filled, correct, qd.explanation,
                                                         question_type),
                  question_type |-> question_type ] >>

\* _parse_response entered with the decoded questions list
ParseCall(items, question_type) ==
    [ op |-> "_parse_response", items |-> items, question_type |-> question_type,
      raised |-> "none", message |-> "none" ]

\* questions_data = data.get("questions", []); if not questions_data: raise
ParseStart ==
    /\ pc = "parse_start"
    /\ IF ret.items = << >>
       THEN /\ ret' = [ ret EXCEPT !.raised = "QuestionGenerationError",
                                   !.message = "No questions in response" ]
            /\ pc' = "parsed"
       ELSE /\ pc' = "parse"
            /\ UNCHANGED ret
    /\ UNCHANGED <<student, mastery, answerLog, dbSessions>>
    /\ UNCHANGED cacheVars
    /\ UNCHANGED <<flow, questions, qi, answers, shown, timer, saved>>

\* one round of the for loop: qd.get("stem", "").strip() raises on a null
\* stem, otherwise the item's Question is appended when there is one
ParseItem ==
    /\ pc = "parse"
    /\ qi <= Len(ret.items)
    /\ IF ret.items[qi].stem = JsonNull
       THEN /\ ret' = [ ret EXCEPT !.raised = "AttributeError" ]
            /\ pc' = "parsed"
            /\ UNCHANGED <<questions, qi>>
       ELSE /\ questions' = questions \o ValidateAndCreateQuestion(ret.items[qi],
                                                                   ret.question_type)
            /\ qi' = qi + 1
            /\ UNCHANGED <<ret, pc>>
    /\ UNCHANGED <<student, mastery, answerLog, dbSessions>>
    /\ UNCHANGED cacheVars
    /\ UNCHANGED <<flow, answers, shown, timer, saved>>

\* after the loop: if not questions: raise; return questions
ParseEnd ==
    /\ pc = "parse"
    /\ qi > Len(ret.items)
    /\ ret' = IF questions = << >>
              THEN [ ret EXCEPT !.raised = "QuestionGenerationError",
                                !.message = "No valid questions after parsing" ]
              ELSE ret
    /\ pc' = "parsed"
    /\ UNCHANGED <<student, mastery, answerLog, dbSessions>>
    /\ UNCHANGED cacheVars
    /\ UNCHANGED <<flow, questions, qi, answers, shown, timer, saved>>

InitParse ==
    /\ student = [level |-> "elementary", grade |-> 3]
    /\ mastery = [t \in Topics |-> NewMastery]
    /\ answerLog = [t \in Topics |-> NoAnswers]
    /\ dbSessions = << >>
    /\ \E n \in 0..MaxItems : \E items \in [1..n -> Items] :
       \E question_type \in {"arithmetic", "synonym"} :
          ret = ParseCall(items, question_type)
    /\ InitCache
    /\ pc = "parse_start"
    /\ flow = NoFlow
    /\ questions = << >>
    /\ qi = 1
    /\ answers = << >>
    /\ shown = << >>
    /\ timer = NoTimer
    /\ saved = << >>

NextParse ==
    \/ ParseStart
    \/ ParseItem
    \/ ParseEnd

SpecParse == InitParse /\ [][NextParse]_vars

(***************************************************************************)
(* question_cache.py: check_and_replenish over the pools of a level        *)
(***************************************************************************)
\* the most pools that are thin when the check starts
MaxThin == 2

ALL_QUESTION_TYPES ==
    << "synonym", "analogy", "arithmetic", "algebra", "geometry", "word_problem",
       "reading_comprehension" >>

\* LEVEL_TYPES.get(level, ALL_QUESTION_TYPES)
LevelTypes(lv) ==
    IF lv = "elementary"
    THEN << "synonym", "analogy", "arithmetic", "geometry", "word_problem",
            "reading_comprehension" >>
    ELSE ALL_QUESTION_TYPES

\* count_unseen_questions: SELECT COUNT(*) ... WHERE question_type = .. AND
\* level = .. AND id NOT IN (answers of the student)
CountUnseen(db, answered, question_type, lv) ==
    Cardinality({ i \in 1..Len(db) : /\ db[i].question_type = question_type
                                     /\ db[i].level = lv
                                     /\ i \notin answered })

\* a questions table: for every type MIN_POOL_SIZE rows of the level, then
\* one row of the other level, and a further row of the level for `extra`
PoolRows(lv, extra) ==
    LET n == Len(ALL_QUESTION_TYPES)
        other == IF lv = "elementary" THEN "middle" ELSE "elementary"
        row(t, l) == [ question_type |-> t, level |-> l, difficulty |-> 3,
                       stem |-> [word |-> "alpha", caps |-> FALSE] ]
    IN  [ i \in 1..(n * MIN_POOL_SIZE) |->
            row(ALL_QUESTION_TYPES[((i - 1) \div MIN_POOL_SIZE) + 1], lv) ]
        \o [ k \in 1..n |-> row(ALL_QUESTION_TYPES[k], other) ]
        \o (IF extra = "none" THEN << >> ELSE << row(extra, lv) >>)

\* the first row of every type in PoolRows
FirstRows == { (k - 1) * MIN_POOL_SIZE + 1 : k \in 1..Len(ALL_QUESTION_TYPES) }

\* how a generate call of check_and_replenish can end: a response with its
\* stems, a QuestionGenerationError, or an exception of another class
\* (generate_reading_comprehension can also return no question)
ReplenishOutcomes(question_type) ==
    { [kind |-> "QuestionGenerationError", stems |-> << >>],
      [kind |-> "OtherError", stems |-> << >>] }
      \cup { [kind |-> "ok", stems |-> b] :
               b \in { << [word |-> "beta", caps |-> FALSE] >>,
                       << [word |-> "alpha", caps |-> FALSE], [word |-> "alpha", caps |-> TRUE] >>,
                       << [word |-> "alpha", caps |-> TRUE], [word |-> "beta", caps |-> FALSE] >> } }
      \cup (IF question_type = "reading_comprehension"
            THEN { [kind |-> "ok", stems |-> << >>] } ELSE {})

\* check_and_replenish entered for a level
ReplenishCall(lv) ==
    [ op |-> "check_and_replenish", level |-> lv, types |-> LevelTypes(lv),
      checked |-> << >>, generated |-> << >>, status |-> << >>, raised |-> "none" ]

\* one round of the for loop over the types
ReplenishType(outcome) ==
    /\ pc = "replenish_loop"
    /\ qi <= Len(cret.types)
    /\ LET qtype == cret.types[qi]
           unseen == CountUnseen(dbQuestions, seen, qtype, cret.level)
           visit == Append(cret.checked, [question_type |-> qtype, unseen |-> unseen])
           info == Append(cret.status, [question_type |-> qtype, level |-> "info"])
           r == [question_type |-> qtype, level |-> cret.level, difficulty |-> 3]
           new_qs == Deduplicate(outcome.stems)
       IN  IF unseen >= MIN_POOL_SIZE
           THEN /\ outcome.kind = "QuestionGenerationError"
                /\ cret' = [ cret EXCEPT !.checked = visit ]
                /\ qi' = qi + 1
                /\ UNCHANGED <<dbQuestions, pc>>
           ELSE /\ outcome \in ReplenishOutcomes(qtype)
                /\ IF outcome.kind = "ok"
                   THEN /\ dbQuestions' = dbQuestions \o Generated(r, new_qs)
                        /\ cret' = [ cret EXCEPT !.checked = visit, !.status = info,
                                                 !.generated = Append(@, qtype) ]
                        /\ qi' = qi + 1
                        /\ UNCHANGED pc
                   ELSE IF outcome.kind = "QuestionGenerationError"
                   THEN /\ cret' = [ cret EXCEPT
                                       !.checked = visit,
                                       !.generated = Append(@, qtype),
                                       !.status = Append(info, [question_type |-> qtype,
                                                                level |-> "warning"]) ]
                        /\ qi' = qi + 1
                        /\ UNCHANGED <<dbQuestions, pc>>
                   ELSE /\ cret' = [ cret EXCEPT !.checked = visit, !.status = info,
                                                 !.generated = Append(@, qtype),
                                                 !.raised = outcome.kind ]
                        /\ pc' = "replenish_done"
                        /\ UNCHANGED <<dbQuestions, qi>>
    /\ UNCHANGED <<student, mastery, answerLog, dbSessions, ret, seen>>
    /\ UNCHANGED <<flow, questions, answers, shown, timer, saved>>

\* the end of the for loop
ReplenishEnd ==
    /\ pc = "replenish_loop"
    /\ qi > Len(cret.types)
    /\ pc' = "replenish_done"
    /\ UNCHANGED dbVars
    /\ UNCHANGED <<flow, questions, qi, answers, shown, timer, saved>>

InitReplenish ==
    /\ student \in { [level |-> "elementary", grade |-> 4],
                     [level |-> "middle", grade |-> 6] }
    /\ mastery = [t \in Topics |-> NewMastery]
    /\ answerLog = [t \in Topics |-> NoAnswers]
    /\ dbSessions = << >>
    /\ ret = NoCall
    /\ \E extra \in {"none", "synonym"} : dbQuestions = PoolRows(student.level, extra)
    /\ seen \in { S \in SUBSET FirstRows : Cardinality(S) <= MaxThin }
    /\ cret = ReplenishCall(student.level)
    /\ pc = "replenish_loop"
    /\ flow = NoFlow
    /\ questions = << >>
    /\ qi = 1
    /\ answers = << >>
    /\ shown = << >>
    /\ timer = NoTimer
    /\ saved = << >>

NextReplenish ==
    \/ \E question_type \in RangeOf(ALL_QUESTION_TYPES) :
       \E outcome \in ReplenishOutcomes(question_type) : ReplenishType(outcome)
    \/ ReplenishEnd

SpecReplenish == InitReplenish /\ [][NextReplenish]_vars

(***************************************************************************)
(* Sessions in sequence: flows that end in update_after_answers, and the   *)
(* review drills of review.py, which store their answers and stop there    *)
(***************************************************************************)
\* the re-asked questions of a review drill: for every topic at most as
\* many as the student has wrong answers on record, each answered once
ReviewBatches ==
    { b \in SmallBatches : \A t \in Topics : b[t].n <= answerLog[t].n - answerLog[t].c }

\* _run_review_drill: create_session(mode="review"), one save_answer per
\* question, update_session with completed_at; no update_after_answers
RunReviewDrill ==
    \E batch \in ReviewBatches :
        /\ \E t \in Topics : batch[t].n > 0
        /\ Len(dbSessions) < MaxSessions
        /\ Answered(SavedLog(answerLog, batch), Topics) <= MaxAttempted
        /\ answerLog' = SavedLog(answerLog, batch)
        /\ dbSessions' = << [ NewSession(Len(dbSessions) + 1, "review")
                                EXCEPT !.completed = TRUE, !.updates = 1 ] >> \o dbSessions
        /\ ret' = [ NoCall EXCEPT !.op = "_run_review_drill" ]
        /\ UNCHANGED <<student, mastery>>

NextHistory ==
    \/ UpdateSmall /\ UNCHANGED cacheVars /\ UNCHANGED runVars
    \/ RunReviewDrill /\ UNCHANGED cacheVars /\ UNCHANGED runVars

InitHistory ==
    /\ student = [level |-> "elementary", grade |-> 3]
    /\ mastery = [t \in Topics |-> NewMastery]
    /\ answerLog = [t \in Topics |-> NoAnswers]
    /\ dbSessions = << >>
    /\ ret = NoCall
    /\ InitCache
    /\ InitIdle

SpecHistory == InitHistory /\ [][NextHistory]_vars

(***************************************************************************)
(* One console flow from the menu to its return                            *)
(***************************************************************************)
InitRunner ==
    /\ student \in { [level |-> "elementary", grade |-> 4],
                     [level |-> "middle", grade |-> 5] }
    /\ mastery = [t \in Topics |-> NewMastery]
    /\ answerLog = [t \in Topics |-> NoAnswers]
    /\ dbSessions = << >>
    /\ ret = NoCall
    /\ InitCache
    /\ pc = "menu"
    /\ \E enabled \in BOOLEAN : flow = [NoFlow EXCEPT !.timer_enabled = enabled]
    /\ questions = << >>
    /\ qi = 0
    /\ answers = << >>
    /\ shown = << >>
    /\ timer = NoTimer
    /\ saved = << >>

NextRunner ==
    \/ \E confirm \in BOOLEAN : StartFullTest(confirm)
    \/ WritingFirst
    \/ SectionIntro
    \/ ScoreFullSection
    \/ WritingLast
    \/ FinalizeFullTest
    \/ UpdateMastery
    \/ Replenish
    \/ \E choice \in 1..(Len(LEVEL_CONFIGS[student.level].sections) + 1) :
          StartSectionPractice(choice)
    \/ PracticeFetch
    \/ ScorePractice
    \/ Review
    \/ \E types \in DrillSelections : \E count \in DrillCounts : \E confirm \in BOOLEAN :
          StartQuickDrill(types, count, confirm)
    \/ DrillFetch
    \/ ScoreDrill
    \/ RunSectionStart
    \/ Poll
    \/ \E selected \in Choices : AnswerQuestion(selected, 1)
    \/ StopTimer
    \/ JoinTimer
    \/ TimerLoop
    \/ TimerTick
    \/ TimerCheck

SpecRunner == InitRunner /\ [][NextRunner]_vars

\* a flow of a student who has an earlier session on record: a completed
\* quick drill in which question 2, a synonym question, was answered wrong
InitReturning ==
    /\ student \in { [level |-> "elementary", grade |-> 4],
                     [level |-> "middle", grade |-> 5] }
    /\ answerLog = [t \in Topics |-> IF t = "synonym" THEN [n |-> 1, c |-> 0] ELSE NoAnswers]
    /\ mastery = [t \in Topics |->
                    IF t = "synonym" THEN UpdateTopic(NewMastery, 0, 1, answerLog[t], 0)
                    ELSE NewMastery]
    /\ dbSessions = << [ NewSession(1, "quick_drill") EXCEPT !.completed = TRUE,
                                                              !.updates = 1 ] >>
    /\ ret = NoCall
    /\ dbQuestions = << >>
    /\ seen = {2}
    /\ cret = NoCacheCall
    /\ pc = "menu"
    /\ \E enabled \in BOOLEAN : flow = [NoFlow EXCEPT !.timer_enabled = enabled]
    /\ questions = << >>
    /\ qi = 0
    /\ answers = << >>
    /\ shown = << >>
    /\ timer = NoTimer
    /\ saved = << [ session_id |-> 1, question_id |-> 2, selected_answer |-> "A",
                    is_correct |-> FALSE, time_spent_seconds |-> 1 ] >>

SpecReturning == InitReturning /\ [][NextRunner]_vars

(***************************************************************************)
(* scoring.py on its own: the three functions _score_section calls, for a  *)
(* student and a percentile tables file that stay fixed.  In this          *)
(* specification `ret` holds the file together with the last call, its     *)
(* arguments and what it returned.                                         *)
(***************************************************************************)
\* longest answers list of which every filling is tried
MaxAnswers == 2
\* largest total_questions given to estimate_scaled_score
MaxTotal == 3

\* the answers _run_section can build for its first n questions
RECURSIVE AnswerLists(_)
AnswerLists(n) ==
    IF n = 0 THEN { << >> }
    ELSE { Append(ans, GivenAnswer(Question(n, "synonym"), sel, 0)) :
             ans \in AnswerLists(n - 1), sel \in Choices }

\* every short list, and three sections of 25 questions with c right
\* answers, then w wrong ones, then s skipped ones
AnswerSamples ==
    LET ScoredList(c, w, s) ==
          [ i \in 1..(c + w + s) |->
              LET q == Question(i, "synonym")
              IN  IF i <= c THEN GivenAnswer(q, q.correct_answer, 0)
                  ELSE IF i <= c + w
                  THEN GivenAnswer(q, IF q.correct_answer = "A" THEN "B" ELSE "A", 0)
                  ELSE SkippedAnswer(q) ]
    IN  UNION { AnswerLists(n) : n \in 0..MaxAnswers }
            \cup { ScoredList(20, 5, 0), ScoredList(1, 8, 16), ScoredList(0, 0, 25) }

\* the tables files: well formed with one table per level, one with a
\* breakpoint that lacks its percentile, an object without tables, and one
\* with middle-level tables for grades 5 and 7 only
TableFiles ==
    LET GoodRows ==
          << [ level |-> "elementary", section |-> "Verbal", grade |-> 4,
               data |-> << <<350, 10>>, <<400, 20>>, <<550, 91>> >> ],
             [ level |-> "middle", section |-> "Verbal", grade |-> 7,
               data |-> << <<440, 5>>, <<575, 50>>, <<575, 60>>, <<710, 95>> >> ] >>
        BadRows ==
          << [ level |-> "elementary", section |-> "Verbal", grade |-> 4,
               data |-> << <<350, 10>>, <<400>>, <<550, 91>> >> ],
             [ level |-> "middle", section |-> "Verbal", grade |-> 7,
               data |-> << <<440, 5>>, <<575, 50>>, <<710>> >> ] >>
        GapRows ==
          << [ level |-> "middle", section |-> "Verbal", grade |-> 5,
               data |-> << <<440, 12>>, <<710, 99>> >> ],
             [ level |-> "middle", section |-> "Verbal", grade |-> 7,
               data |-> << <<440, 3>>, <<710, 93>> >> ] >>
    IN  { MissingFile, [kind |-> "unparsable", rows |-> << >>],
          [kind |-> "array", rows |-> << >>], [kind |-> "object", rows |-> << >>],
          [kind |-> "object", rows |-> GoodRows], [kind |-> "object", rows |-> BadRows],
          [kind |-> "object", rows |-> GapRows] }

\* scaled scores of the level: every 5th from score_min to score_max
ScaledSamples(level) ==
    LET cfg == LEVEL_CONFIGS[level]
    IN  { x \in cfg.score_min..cfg.score_max : (x - cfg.score_min) % 5 = 0 }

InitScoring ==
    /\ student \in Placements
    /\ mastery = [t \in Topics |-> NewMastery]
    /\ answerLog = [t \in Topics |-> NoAnswers]
    /\ dbSessions = << >>
    /\ ret \in { [op |-> "none", file |-> f] : f \in TableFiles }
    /\ InitCache
    /\ InitIdle

CallCalculateRawScore ==
    \E ans \in AnswerSamples :
        /\ ret' = [ op |-> "calculate_raw_score", file |-> ret.file, answers |-> ans,
                    raw |-> RawScore(ans, student.level),
                    correct |-> CorrectCount(ans), wrong |-> WrongCount(ans),
                    skipped |-> SkippedCount(ans) ]
        /\ UNCHANGED <<student, mastery, answerLog, dbSessions>>
        /\ UNCHANGED runVars

CallEstimateScaledScore ==
    \E raw \in 0..(4 * MaxTotal + 4), total \in 0..MaxTotal :
        /\ ret' = [ op |-> "estimate_scaled_score", file |-> ret.file,
                    raw |-> raw, total |-> total,
                    scaled |-> EstimateScaledScore(raw, total, student.level) ]
        /\ UNCHANGED <<student, mastery, answerLog, dbSessions>>
        /\ UNCHANGED runVars

CallLookupPercentile ==
    \E scaled \in ScaledSamples(student.level), name \in {"Verbal", "Reading"} :
        /\ ret' = [ op |-> "lookup_percentile", file |-> ret.file,
                    scaled |-> scaled, section |-> name,
                    result |-> LookupPercentileIn(ret.file, scaled, student.level,
                                                  name, student.grade) ]
        /\ UNCHANGED <<student, mastery, answerLog, dbSessions>>
        /\ UNCHANGED runVars

NextScoring ==
    \/ CallCalculateRawScore /\ UNCHANGED cacheVars
    \/ CallEstimateScaledScore /\ UNCHANGED cacheVars
    \/ CallLookupPercentile /\ UNCHANGED cacheVars

SpecScoring == InitScoring /\ [][NextScoring]_vars

(***************************************************************************)
(* question_cache.py: get_mixed_questions, one get_questions call per step *)
(* In this specification `flow` holds the section argument and the         *)
(* type_counts dict, `qi` the entries of it the loop is done with and      *)
(* `questions` the list the method extends and returns.                    *)
(***************************************************************************)
\* largest question_count of the sections that are not configured ones
MaxSplit == 7

TypeCountsMutant(section) ==
    LET total == section.question_count
        types == section.question_types
    IN  IF section.name = "Verbal"
        THEN << [qtype |-> "synonym", count |-> total \div 2],
                [qtype |-> "analogy", count |-> total \div 2] >>
        ELSE IF section.name = "Reading"
        THEN << [qtype |-> "reading_comprehension", count |-> total] >>
        ELSE [ k \in 1..Len(types) |->
                 [qtype |-> types[k], count |-> total \div Len(types)] ]

\* the type_counts dict in insertion order, for question_types without
\* repetition; the three explicit branches and the default one, which does
\* what the Quantitative/Math branch does
TypeCounts(section) ==
    LET total == section.question_count
        types == section.question_types
        half == total \div 2
        per_type == total \div Len(types)
        remainder == total - per_type * Len(types)
    IN  IF section.name = "Verbal"
        THEN << [qtype |-> "synonym", count |-> half],
                [qtype |-> "analogy", count |-> half + (total - half * 2)] >>
        ELSE IF section.name = "Reading"
        THEN << [qtype |-> "reading_comprehension", count |-> total] >>
        ELSE [ k \in 1..Len(types) |->
                 [qtype |-> types[k],
                  count |-> IF k = 1 THEN per_type + remainder ELSE per_type] ]

\* the sections of the level in LEVEL_CONFIGS, the same sections with every
\* question count up to MaxSplit, and a section under another name
SectionSamples(level) ==
    LET configured == RangeOf(LEVEL_CONFIGS[level].sections)
    IN  configured
          \cup { [sec EXCEPT !.question_count = c] : sec \in configured, c \in 0..MaxSplit }
          \cup { SectionConfig("Quick Drill", c, 0, <<"synonym", "arithmetic">>) :
                   c \in 0..MaxSplit }

InitMixed ==
    /\ student \in { [level |-> "elementary", grade |-> 4], [level |-> "middle", grade |-> 5] }
    /\ mastery = [t \in Topics |-> NewMastery]
    /\ answerLog = [t \in Topics |-> NoAnswers]
    /\ dbSessions = << >>
    /\ ret = NoCall
    /\ InitCache
    /\ pc = "idle"
    /\ flow \in { [section |-> sec, type_counts |-> << >>] :
                    sec \in SectionSamples(student.level) }
    /\ questions = << >>
    /\ qi = 0
    /\ answers = << >>
    /\ shown = << >>
    /\ timer = NoTimer
    /\ saved = << >>

\* entry of get_mixed_questions up to the loop: the split of question_count
MixedStart ==
    /\ pc = "idle"
    /\ pc' = "mixed_loop"
    /\ flow' = [flow EXCEPT !.type_counts = TypeCounts(flow.section)]
    /\ UNCHANGED <<questions, qi, answers, shown, timer, saved>>
    /\ UNCHANGED dbVars

\* one round of the loop over type_counts: an entry without questions is
\* passed over, the others are fetched with get_questions at the default
\* difficulty of a student without mastery rows; the method returns after
\* the last entry
MixedFetch ==
    /\ pc = "mixed_loop"
    /\ qi < Len(flow.type_counts)
    /\ LET entry == flow.type_counts[qi + 1]
       IN  IF entry.count <= 0
           THEN UNCHANGED <<questions, dbQuestions, seen, cret>>
           ELSE /\ LET r == [ question_type |-> entry.qtype, level |-> student.level,
                               difficulty |-> DIFFICULTY_DEFAULT \div 10 ]
                   IN  GetQuestions(r, entry.count, GeneratorOutcomes(r), MaxPool)
                /\ questions' = questions \o cret'.result
    /\ qi' = qi + 1
    /\ pc' = IF qi + 1 = Len(flow.type_counts) THEN "returned" ELSE "mixed_loop"
    /\ UNCHANGED <<flow, answers, shown, timer, saved>>
    /\ UNCHANGED levelVars

NextMixed ==
    \/ MixedStart
    \/ MixedFetch

SpecMixed == InitMixed /\ [][NextMixed]_vars

(***************************************************************************)
(* get_questions on a pool that holds questions already: five of the       *)
(* requested type and level, three of them at the requested difficulty     *)
(***************************************************************************)
PoolOfFive ==
    LET row(word, d) == [ question_type |-> "synonym", level |-> "elementary",
                          difficulty |-> d, stem |-> [word |-> word, caps |-> FALSE] ]
    IN  << row("alpha", 3), row("delta", 4), row("beta", 3), row("epsilon", 4),
           row("gamma", 3) >>

\* the generator fails, or answers with five items of which one repeats the
\* stem of another one (in another spelling, in the same spelling, and with
\* one more item that has the stem of a pool question)
FiveItemOutcomes ==
    LET st(word) == [word |-> word, caps |-> FALSE]
        ST(word) == [word |-> word, caps |-> TRUE]
    IN  { [ok |-> FALSE, stems |-> << >>],
          [ok |-> TRUE, stems |-> << st("zeta"), st("eta"), st("theta"), ST("zeta"), st("iota") >>],
          [ok |-> TRUE, stems |-> << st("zeta"), st("zeta"), st("eta"), st("theta"), st("iota") >>],
          [ok |-> TRUE, stems |-> << ST("alpha"), st("zeta"), st("eta"), st("theta"), st("zeta") >>] }

\* one call with a count inside the exact rows, inside the pool, and above it
CallOnPool ==
    /\ Len(dbQuestions) = Len(PoolOfFive)
    /\ \E count \in {2, 4, 10} :
          GetQuestions([question_type |-> "synonym", level |-> "elementary", difficulty |-> 3],
                       count, FiveItemOutcomes, 2 * Len(PoolOfFive))

InitPool ==
    /\ student = [level |-> "elementary", grade |-> 3]
    /\ mastery = [t \in Topics |-> NewMastery]
    /\ answerLog = [t \in Topics |-> NoAnswers]
    /\ dbSessions = << >>
    /\ ret = NoCall
    /\ dbQuestions = PoolOfFive
    /\ seen = {}
    /\ cret = NoCacheCall
    /\ InitIdle

NextPool ==
    \/ CallOnPool /\ UNCHANGED levelVars /\ UNCHANGED runVars
    \/ AnswerDelivered /\ UNCHANGED levelVars /\ UNCHANGED runVars

SpecPool == InitPool /\ [][NextPool]_vars

(***************************************************************************)
(* Claims about the difficulty state machine (SpecDifficulty)              *)
(***************************************************************************)
\* what one update step graded for topic t: the rows its caller saved
BatchTotal(t) == answerLog'[t].n - answerLog[t].n
BatchCorrect(t) == answerLog'[t].c - answerLog[t].c
OldDifficulty(t) == IF mastery[t].exists THEN mastery[t].difficulty_level ELSE 30

\* C1: whatever batches update_after_answers is called with, the stored
\* difficulty_level of every topic stays within [1.0, 5.0].
C1_DifficultyInRange ==
    \A t \in Topics : mastery[t].difficulty_level >= 10 /\ mastery[t].difficulty_level <= 50

\* an all-correct batch graded for a topic that already sits at 5.0
C1_Witness ==
    \E t \in Topics :
        /\ ret.op = "update_after_answers"
        /\ mastery[t].difficulty_level = 50
        /\ mastery[t].total_attempted >= 9
        /\ mastery[t].total_correct = mastery[t].total_attempted
        /\ ret.topic_events[t] = "none"

\* C2: when total_attempted (with the batch) >= 5, the batch accuracy is
\* >= 0.85 and the all-time accuracy (with the batch) is >= 0.80, the
\* difficulty becomes min(5.0, old + 0.5).
C2_IncreaseStep ==
    [][ \A t \in Topics :
          ( /\ BatchTotal(t) > 0
            /\ mastery'[t].total_attempted >= 5
            /\ 100 * BatchCorrect(t) >= 85 * BatchTotal(t)
            /\ 100 * mastery'[t].total_correct >= 80 * mastery'[t].total_attempted )
          => mastery'[t].difficulty_level
                = (IF OldDifficulty(t) + 5 > 50 THEN 50 ELSE OldDifficulty(t) + 5) ]_vars

\* a topic at exactly five attempts whose all-correct batch has just raised
\* it from 3.0 to 3.5
C2_Witness ==
    \E t \in Topics :
        /\ ret.op = "update_after_answers"
        /\ ret.topic_events[t] = "up"
        /\ mastery[t].difficulty_level = 35
        /\ mastery[t].total_attempted = 5
        /\ mastery[t].total_correct = 4

\* C3: when total_attempted (with the batch) >= 5, the batch accuracy is
\* < 0.50 and the all-time accuracy is < 0.60, the difficulty becomes
\* max(1.0, old - 0.5).
C3_DecreaseStep ==
    [][ \A t \in Topics :
          ( /\ BatchTotal(t) > 0
            /\ mastery'[t].total_attempted >= 5
            /\ 100 * BatchCorrect(t) < 50 * BatchTotal(t)
            /\ 100 * mastery'[t].total_correct < 60 * mastery'[t].total_attempted )
          => mastery'[t].difficulty_level
                = (IF OldDifficulty(t) - 5 < 10 THEN 10 ELSE OldDifficulty(t) - 5) ]_vars

\* a failed batch has just lowered a topic, and one has been held at 1.0
C3_Witness ==
    \E t \in Topics :
        /\ ret.op = "update_after_answers"
        /\ ret.topic_events[t] = "down"
        /\ mastery[t].difficulty_level = 10

\* C4: one update_after_answers call moves the difficulty of a topic of the
\* batch by one step of 0.5 or not at all, leaves it alone when
\* total_attempted < 5 or neither pair of conditions holds, and does not
\* modify a topic that has no answer in the batch.
C4_OneStepFrame ==
    [][ \A t \in Topics :
          LET up == /\ 100 * BatchCorrect(t) >= 85 * BatchTotal(t)
                    /\ 100 * mastery'[t].total_correct >= 80 * mastery'[t].total_attempted
              down == /\ 100 * BatchCorrect(t) < 50 * BatchTotal(t)
                      /\ 100 * mastery'[t].total_correct < 60 * mastery'[t].total_attempted
              new == mastery'[t].difficulty_level
          IN  /\ BatchTotal(t) = 0 => mastery'[t] = mastery[t]
              /\ BatchTotal(t) > 0 =>
                    /\ new \in {OldDifficulty(t), OldDifficulty(t) + 5, OldDifficulty(t) - 5}
                    /\ (mastery'[t].total_attempted < 5 \/ (~up /\ ~down))
                          => new = OldDifficulty(t) ]_vars

\* one call has moved a topic while another topic, with five or more
\* attempts on record and no answer in the batch, kept its row
C4_Witness ==
    \E t1, t2 \in Topics :
        /\ t1 # t2
        /\ ret.op = "update_after_answers"
        /\ ret.topic_events[t1] = "down"
        /\ ret.topic_events[t2] = "none"
        /\ mastery[t2].total_attempted >= 5
        /\ mastery[t2].total_correct = 0
        /\ mastery[t2].difficulty_level > 10
        /\ answerLog[t1].n = 5

(***************************************************************************)
(* Claims about the level mastery check (SpecMastery)                      *)
(***************************************************************************)
\* C10: _check_level_mastery changes the student's grade or level only if
\* there are at least 3 full-test sessions, the 3 newest have all three
\* percentiles present and >= 85, and every topic with at least 20 attempts
\* has accuracy >= 0.85; if a condition fails it returns no event and leaves
\* the student unchanged.
C10_MasteryGate ==
    [][ (answerLog' # answerLog) =>
          LET qualifies ==
                /\ Len(ftSessions) >= 3
                /\ \A i \in 1..3 : \A f \in PercentileFields :
                      i <= Len(ftSessions) =>
                          (ftSessions[i][f] # None /\ ftSessions[i][f] >= 85)
                /\ \A t \in Topics :
                      (mastery'[t].exists /\ mastery'[t].total_attempted >= 20)
                          => 100 * mastery'[t].total_correct
                                >= 85 * mastery'[t].total_attempted
          IN  /\ student' # student => qualifies
              /\ ~qualifies => (ret'.mastery_event = "none" /\ student' = student) ]_vars

\* a promotion granted with a topic of 20 attempts at exactly 85%
C10_Witness ==
    /\ ret.op = "update_after_answers"
    /\ ret.mastery_event \in {"grade_up", "to_middle"}
    /\ \E t \in Topics : mastery[t].total_attempted = 20 /\ mastery[t].total_correct = 17

(***************************************************************************)
(* Claims about get_questions (SpecCache)                                  *)
(***************************************************************************)
\* C7: whatever the pool holds and whatever the generator does,
\* get_questions returns at most count questions (none when count <= 0),
\* with distinct ids, all of the requested type and level, none of which
\* the student has an answer for.
C7_GetQuestionsContract ==
    [][ (cret' # cret /\ seen' = seen) =>
          /\ cret'.outcome = "returned"
          /\ Len(cret'.result) <= (IF cret'.count > 0 THEN cret'.count ELSE 0)
          /\ \A i, j \in 1..Len(cret'.result) :
                i # j => cret'.result[i] # cret'.result[j]
          /\ \A i \in 1..Len(cret'.result) :
                /\ cret'.result[i] \in 1..Len(dbQuestions')
                /\ dbQuestions'[cret'.result[i]].question_type = cret'.request.question_type
                /\ dbQuestions'[cret'.result[i]].level = cret'.request.level
                /\ cret'.result[i] \notin seen ]_vars

\* C8: when generation raises QuestionGenerationError, get_questions does not
\* raise, reports the failure through the status callback, persists nothing
\* new, and returns exactly the unseen pool questions it had gathered from
\* the exact-difficulty and any-difficulty steps, fewer than count.
C8_GenerationFailure ==
    [][ (seen' = seen /\ cret'.gen = "failed") =>
          /\ cret'.outcome = "returned"
          /\ cret'.status = "warning"
          /\ dbQuestions' = dbQuestions
          /\ cret'.result = cret'.gathered
          /\ Len(cret'.result) < cret'.count
          /\ \A i, j \in 1..Len(cret'.result) :
                i # j => cret'.result[i] # cret'.result[j]
          /\ \A i \in 1..Len(cret'.result) : cret'.result[i] \in 1..Len(dbQuestions)
          /\ \A id \in 1..Len(dbQuestions) :
                LET row == dbQuestions[id]
                    matches == /\ row.question_type = cret'.request.question_type
                               /\ row.level = cret'.request.level
                               /\ id \notin seen
                    returned == \E i \in 1..Len(cret'.result) : cret'.result[i] = id
                IN  /\ returned => matches
                    /\ (matches /\ row.difficulty = cret'.request.difficulty) => returned ]_vars

\* a failed generation after one unseen pool question was gathered for a
\* request of two
C8_Witness ==
    /\ cret.outcome = "returned"
    /\ cret.gen = "failed"
    /\ cret.count = 2
    /\ Len(cret.gathered) = 1
    /\ Len(cret.result) = 1
    /\ seen # {}

(***************************************************************************)
(* Claims about the question loop (SpecSection)                            *)
(***************************************************************************)
\* C5: _run_section returns exactly one Answer per delivered question, in
\* question order, whenever the timer expires: a question that was presented
\* is recorded with the student's selection, and once time-up is observed
\* (which happens only at the check before a question) every remaining
\* question is recorded as skipped -- no selection, is_correct false, 0
\* seconds -- without being presented.
C5_OneAnswerPerQuestion ==
    /\ pc \in {"stop_timer", "join", "section_done"} =>
          /\ Len(answers) = Len(questions)
          /\ Len(shown) <= Len(questions)
          /\ Len(shown) < Len(questions) => (timer.on /\ timer.time_up)
          /\ \A i \in 1..Len(questions) :
                /\ answers[i].question_id = questions[i].id
                /\ i <= Len(shown) =>
                      /\ shown[i].question_id = questions[i].id
                      /\ answers[i].selected_answer = shown[i].selected
                      /\ answers[i].is_correct
                            = (shown[i].selected = questions[i].correct_answer)
                /\ i > Len(shown) =>
                      /\ answers[i].selected_answer = NoSelection
                      /\ answers[i].is_correct = FALSE
                      /\ answers[i].time_spent_seconds = 0
    /\ pc \in {"poll", "input"} =>
          /\ Len(answers) = Len(shown)
          /\ Len(answers) = qi - 1
          /\ \A i \in 1..Len(answers) :
                /\ answers[i].question_id = questions[i].id
                /\ answers[i].selected_answer = shown[i].selected

\* the section has returned three answers: the first question was presented
\* and answered correctly, then time-up was seen and two were skipped
C5_Witness ==
    /\ pc = "section_done"
    /\ Len(questions) = 3
    /\ Len(shown) = 1
    /\ Len(answers) = 3
    /\ answers[1].is_correct
    /\ answers[2].selected_answer = NoSelection
    /\ answers[3].selected_answer = NoSelection

(***************************************************************************)
(* Claims about the console flows (SpecRunner)                             *)
(***************************************************************************)
\* the pc values at which _run_section is running or has just returned
\* its answers to a flow that has not scored them yet
InSection == pc \in {"run_section", "poll", "input", "stop_timer", "join", "section_done"}

SavedIds == { saved[i].question_id : i \in 1..Len(saved) }

\* C6 as stated: under the console orchestrator every answered or skipped
\* question is persisted at once, before the next question is presented, so
\* an interruption in the middle of a section loses no answer already given.
C6_PersistedBeforeNextQuestion ==
    (pc = "input" /\ flow.mode # "none") =>
        \A i \in 1..Len(answers) : answers[i].question_id \in SavedIds

\* C6, amended: the console orchestrator persists the answers of a section
\* only after _run_section has returned them -- none of them is in storage
\* while the section's questions are being asked -- and then saves every
\* one of them once, in order, under the flow's session, before the next
\* section's questions are fetched and before the session is updated.
C6_PersistedAfterSection ==
    flow.session.id # 0 =>
        /\ InSection => \A i \in 1..Len(questions) : questions[i].id \notin SavedIds
        /\ Len(saved) = Len(flow.all_answers)
        /\ Len(saved) = Len(flow.all_questions)
        /\ \A i \in 1..Len(saved) :
              /\ saved[i].session_id = flow.session.id
              /\ saved[i].question_id = flow.all_questions[i].id
              /\ saved[i].question_id = flow.all_answers[i].question_id
              /\ saved[i].selected_answer = flow.all_answers[i].selected_answer
              /\ saved[i].is_correct = flow.all_answers[i].is_correct
        /\ (pc = "section_intro" /\ flow.sec > 1 /\ answers # << >>) =>
              \A i \in 1..Len(answers) : answers[i].question_id \in SavedIds
        /\ dbSessions[1].completed =>
              \A i \in 1..Len(answers) : answers[i].question_id \in SavedIds

\* the second question of a section is on the screen: the answer to the
\* first is in memory only, the previous section's answer is in storage
C6_Witness ==
    /\ pc = "input"
    /\ flow.mode = "full_test"
    /\ Len(answers) = 1
    /\ answers[1].selected_answer = "A"
    /\ Len(saved) = 1
    /\ answers[1].question_id \notin SavedIds

\* C9: every TestSession a flow creates is created without a completion
\* timestamp and is updated in storage exactly once, by an update that
\* stamps completed_at, before the flow returns normally; no flow returns
\* normally leaving the session it created incomplete.
C9_SessionCompletedOnReturn ==
    \A i \in 1..Len(dbSessions) :
        /\ dbSessions[i].updates <= 1
        /\ dbSessions[i].completed <=> dbSessions[i].updates = 1
        /\ pc = "returned" => (dbSessions[i].completed /\ dbSessions[i].updates = 1)

(***************************************************************************)
(* Promotion and step-down                                                 *)
(***************************************************************************)
\* C11: on a successful mastery check _level_up moves elementary 3 to
\* elementary 4, elementary 4 to middle 5, middle 5 and 6 to the next grade
\* of the middle level, and leaves middle 7 unchanged while still reporting
\* mastery.
C11_LevelUpTransitions ==
    [][ (answerLog' # answerLog /\ ret'.mastery_event # "none") =>
          /\ (student.level = "elementary" /\ student.grade = 3)
                => student' = [level |-> "elementary", grade |-> 4]
          /\ (student.level = "elementary" /\ student.grade = 4)
                => student' = [level |-> "middle", grade |-> 5]
          /\ (student.level = "middle" /\ student.grade \in {5, 6})
                => student' = [level |-> "middle", grade |-> student.grade + 1]
          /\ (student.level = "middle" /\ student.grade = 7)
                => (student' = student /\ ret'.mastery_event = "mastered") ]_vars

\* a grade 7 student of the middle level passed the mastery check
C11_Witness ==
    /\ ret.op = "update_after_answers"
    /\ ret.mastery_event = "mastered"
    /\ student = [level |-> "middle", grade |-> 7]

\* C12: check_level_down returns a step-down offer exactly when the student
\* has at least 2 full-test sessions and in each of the 2 most recent ones
\* every percentile (verbal, quantitative, reading) is below 40; with fewer
\* than 2 full tests it returns no signal; in every case it leaves the
\* student's grade and level unchanged.
C12_StepDownOffer ==
    [][ (ret' # ret /\ ret'.op = "check_level_down") =>
          LET allLow ==
                /\ Len(ftSessions) >= 2
                /\ \A i \in 1..2 : \A f \in PercentileFields :
                      i <= Len(ftSessions) =>
                          (ftSessions[i][f] # None /\ ftSessions[i][f] < 40)
          IN  /\ ret'.message = "step_down_offer" <=> allLow
              /\ Len(ftSessions) < 2 => ret'.message = "none"
              /\ student' = student ]_vars

(***************************************************************************)
(* Claims about the mastery record (SpecWindow)                            *)
(***************************************************************************)
\* C13: after every _update_topic call the upserted TopicMastery record
\* satisfies 0 <= total_correct <= total_attempted and
\* last_50_correct <= last_50_attempted <= 50, whatever the batch and the
\* persisted answer history are.
C13_MasteryRecordBounds ==
    [][ \A t \in Topics :
          answerLog'[t].n > answerLog[t].n =>
              /\ mastery'[t].exists
              /\ 0 <= mastery'[t].total_correct
              /\ mastery'[t].total_correct <= mastery'[t].total_attempted
              /\ mastery'[t].last_50_correct <= mastery'[t].last_50_attempted
              /\ mastery'[t].last_50_attempted <= 50 ]_vars

\* a topic with more than 50 answers: the window is full and has dropped a
\* correct answer the totals still count
C13_Witness ==
    /\ ret.op = "update_after_answers"
    /\ \E t \in Topics :
          /\ mastery[t].total_attempted > 50
          /\ mastery[t].last_50_attempted = 50
          /\ mastery[t].last_50_correct < mastery[t].total_correct

(***************************************************************************)
(* Claims about scoring (SpecScoring)                                      *)
(***************************************************************************)
\* C14: for every list of answers, the counts of calculate_raw_score satisfy
\* correct + wrong + skipped == len(answers).
C14_CountsPartition ==
    ret.op = "calculate_raw_score" =>
        ret.correct + ret.wrong + ret.skipped = Len(ret.answers)

\* a list that holds a right, a wrong and a skipped answer
C14_Witness ==
    /\ ret.op = "calculate_raw_score"
    /\ Len(ret.answers) = 25
    /\ ret.correct >= 1 /\ ret.wrong >= 1 /\ ret.skipped >= 1

\* C15: the raw score is max(0, correct - wrong * penalty) for the middle
\* level (penalty 0.25) and equals correct for the elementary level, so
\* 0 <= raw <= correct; e.g. middle level, 20 correct, 5 wrong, 0 skipped
\* gives 18.75 (75 quarters).
C15_RawScore ==
    ret.op = "calculate_raw_score" =>
        /\ student.level = "middle" =>
              ret.raw = (IF 4 * ret.correct - ret.wrong > 0
                         THEN 4 * ret.correct - ret.wrong ELSE 0)
        /\ student.level = "elementary" => ret.raw = 4 * ret.correct
        /\ 0 <= ret.raw /\ ret.raw <= 4 * ret.correct
        /\ (student.level = "middle" /\ ret.correct = 20 /\ ret.wrong = 5
               /\ ret.skipped = 0) => ret.raw = 75

\* the example of the claim
C15_Witness ==
    /\ ret.op = "calculate_raw_score"
    /\ student.level = "middle"
    /\ ret.correct = 20 /\ ret.wrong = 5 /\ ret.skipped = 0
    /\ ret.raw = 75

\* C16: for each configured level, estimate_scaled_score(raw, total, level)
\* equals round(score_min + clamp(raw / total, 0, 1) * (score_max - score_min))
\* when total >= 1, lies in [score_min, score_max], is non-decreasing in raw,
\* equals score_min for raw 0 and score_max for raw = total, and is
\* score_min when total <= 0.
C16_ScaledScore ==
    ret.op = "estimate_scaled_score" =>
        LET cfg == LEVEL_CONFIGS[student.level]
            span == cfg.score_max - cfg.score_min
            den == 4 * ret.total
            clamped == IF ret.raw < 0 THEN 0
                       ELSE IF ret.raw > den THEN den ELSE ret.raw
        IN  /\ ret.total >= 1 =>
                  ret.scaled = RoundHalfEven(cfg.score_min * den + clamped * span, den)
            /\ cfg.score_min <= ret.scaled /\ ret.scaled <= cfg.score_max
            /\ \A lower \in 0..ret.raw :
                  EstimateScaledScore(lower, ret.total, student.level) <= ret.scaled
            /\ ret.raw = 0 => ret.scaled = cfg.score_min
            /\ (ret.total >= 1 /\ ret.raw = den) => ret.scaled = cfg.score_max
            /\ ret.total <= 0 => ret.scaled = cfg.score_min

\* a raw score above the number of questions is scored like a full mark
C16_Witness ==
    /\ ret.op = "estimate_scaled_score"
    /\ ret.total >= 1
    /\ ret.raw > 4 * ret.total
    /\ ret.scaled = LEVEL_CONFIGS[student.level].score_max

\* the row of the tables file that lookup_percentile takes its table from:
\* of the rows of the level and section for the grade or a neighbour of it,
\* the grade's own, or else the one of the lowest grade
TablesInReach ==
    LET near == { i \in 1..Len(ret.file.rows) :
                    /\ ret.file.rows[i].level = student.level
                    /\ ret.file.rows[i].section = ret.section
                    /\ ret.file.rows[i].grade
                          \in (student.grade - 1)..(student.grade + 1) }
    IN  { i \in near :
            IF \E j \in near : ret.file.rows[j].grade = student.grade
            THEN ret.file.rows[i].grade = student.grade
            ELSE \A j \in near : ret.file.rows[i].grade <= ret.file.rows[j].grade }

\* a list of [score, percentile] pairs, the scores ascending and the
\* percentiles non-decreasing
WellFormedTable(data) ==
    /\ \A k \in 1..Len(data) : Len(data[k]) = 2
    /\ \A k \in 1..(Len(data) - 1) :
          data[k][1] <= data[k + 1][1] /\ data[k][2] <= data[k + 1][2]

\* C17: for a fixed percentile table (ascending scores, non-decreasing
\* percentiles) and fixed level, section and grade, lookup_percentile is
\* monotonic non-decreasing in the scaled score.
C17_LookupMonotonic ==
    (/\ ret.op = "lookup_percentile"
     /\ ret.file.kind = "object"
     /\ \A i \in 1..Len(ret.file.rows) : WellFormedTable(ret.file.rows[i].data))
        => /\ ret.result.outcome = "returned"
           /\ \A lower \in ScaledSamples(student.level) :
                 lower <= ret.scaled =>
                     LET below == LookupPercentileIn(ret.file, lower, student.level,
                                                     ret.section, student.grade)
                     IN  below.outcome = "returned" /\ below.value <= ret.result.value

\* a score between two breakpoints of the table found, with a higher
\* percentile than the lowest score gets
C17_Witness ==
    /\ ret.op = "lookup_percentile"
    /\ TablesInReach # {}
    /\ \A i \in TablesInReach : WellFormedTable(ret.file.rows[i].data)
    /\ ret.result.outcome = "returned"
    /\ ret.result.value
          > LookupPercentileIn(ret.file, LEVEL_CONFIGS[student.level].score_min,
                               student.level, ret.section, student.grade).value
    /\ ret.result.value
          < LookupPercentileIn(ret.file, LEVEL_CONFIGS[student.level].score_max,
                               student.level, ret.section, student.grade).value

\* C18: when a table is found, lookup_percentile returns the first
\* breakpoint's percentile for a score at or below the first breakpoint, the
\* last breakpoint's percentile for a score at or above the last, and
\* otherwise the rounded linear interpolation between the bracketing
\* breakpoints.
C18_BreakpointPolicy ==
    ret.op = "lookup_percentile" =>
        \A i \in TablesInReach :
            LET data == ret.file.rows[i].data
                n == Len(data)
            IN  WellFormedTable(data) =>
                  /\ ret.result.outcome = "returned"
                  /\ ret.scaled <= data[1][1] => ret.result.value = data[1][2]
                  /\ ret.scaled >= data[n][1] => ret.result.value = data[n][2]
                  /\ (data[1][1] < ret.scaled /\ ret.scaled < data[n][1]) =>
                        \E k \in 1..(n - 1) :
                            /\ data[k][1] <= ret.scaled
                            /\ ret.scaled <= data[k + 1][1]
                            /\ data[k][1] < data[k + 1][1]
                            /\ ret.result.value =
                                  RoundHalfEven(
                                      data[k][2] * (data[k + 1][1] - data[k][1])
                                        + (ret.scaled - data[k][1])
                                            * (data[k + 1][2] - data[k][2]),
                                      data[k + 1][1] - data[k][1])

\* halfway between the breakpoints (400, 20) and (550, 91): 55.5, rounded
\* to the even neighbour
C18_Witness ==
    /\ ret.op = "lookup_percentile"
    /\ TablesInReach # {}
    /\ student.level = "elementary"
    /\ ret.scaled = 475
    /\ ret.result = Returns(56)

\* C19: lookup_percentile never fails the caller: when the table file is
\* missing or unparsable, the table is malformed, or no table exists for the
\* level/section/grade, it returns the fallback
\* clamp(round(1 + 98 * (scaled - min) / (max - min)), 1, 99), which is
\* always an integer in 1..99.
C19_LookupNeverFails ==
    ret.op = "lookup_percentile" =>
        LET cfg == LEVEL_CONFIGS[student.level]
            span == cfg.score_max - cfg.score_min
            rounded == RoundHalfEven(span + 98 * (ret.scaled - cfg.score_min), span)
            fallback == IF rounded < 1 THEN 1 ELSE IF rounded > 99 THEN 99 ELSE rounded
            malformed ==
                \/ ret.file.kind = "array"
                \/ \E i \in TablesInReach :
                      \E k \in 1..Len(ret.file.rows[i].data) :
                          Len(ret.file.rows[i].data[k]) # 2
        IN  /\ ret.result.outcome = "returned"
            /\ ret.result.value \in 1..99
            /\ (ret.file.kind \in {"missing", "unparsable"} \/ malformed
                  \/ TablesInReach = {}) => ret.result.value = fallback

(***************************************************************************)
(* Claims about get_mixed_questions (SpecMixed)                            *)
(***************************************************************************)
\* the sum of the counts of the entries of a type_counts dict
RECURSIVE SumCounts(_)
SumCounts(tc) == IF tc = << >> THEN 0 ELSE Head(tc).count + SumCounts(Tail(tc))

\* C20: get_mixed_questions splits the section's question_count over topics
\* so that the per-topic counts always sum to question_count: a Verbal
\* section gives floor(total/2) to the first topic and the rest to the
\* second; Quantitative 1, Quantitative 2, Math and any other section name
\* give floor(total/N) to each of the N topics with the whole remainder
\* added to the first topic; a Reading section gives the entire count to
\* reading_comprehension.
C20_SplitSumsToCount ==
    pc \in {"mixed_loop", "returned"} =>
        LET tc == flow.type_counts
            total == flow.section.question_count
            types == flow.section.question_types
            N == Len(types)
        IN  /\ SumCounts(tc) = total
            /\ flow.section.name = "Verbal" =>
                  /\ Len(tc) = 2
                  /\ tc[1] = [qtype |-> types[1], count |-> total \div 2]
                  /\ tc[2] = [qtype |-> types[2], count |-> total - total \div 2]
            /\ flow.section.name = "Reading" =>
                  tc = << [qtype |-> "reading_comprehension", count |-> total] >>
            /\ flow.section.name \notin {"Verbal", "Reading"} =>
                  /\ Len(tc) = N
                  /\ \A k \in 1..N :
                        /\ tc[k].qtype = types[k]
                        /\ tc[k].count = total \div N
                                           + (IF k = 1 THEN total - N * (total \div N) ELSE 0)

\* Quantitative 1 of the middle level, 25 questions over 3 topics, after
\* the method returned: 9, 8 and 8
C20_Witness ==
    /\ pc = "returned"
    /\ flow.section.name = "Quantitative 1"
    /\ flow.section.question_count = 25
    /\ flow.type_counts[1].count = 9
    /\ flow.type_counts[2].count = 8
    /\ flow.type_counts[3].count = 8

(***************************************************************************)
(* Claims about get_questions on a filled pool (SpecPool)                  *)
(***************************************************************************)
\* C21: get_questions builds its result in the order exact-difficulty pool
\* questions, then other-difficulty pool questions, then the deduplicated
\* generated questions, and truncates to count; for a request of 10 with 3
\* unseen at the exact difficulty, 2 more unseen at other difficulties, and a
\* generated batch of 5 items of which one repeats another's stem, it
\* returns 9 questions and raises no error.
C21_ResultOrder ==
    [][ (cret' # cret /\ seen' = seen) =>
          LET res == cret'.result
              old == Len(dbQuestions)
              rank(id) == IF id > old THEN 3
                          ELSE IF dbQuestions[id].difficulty = cret'.request.difficulty
                          THEN 1 ELSE 2
          IN  /\ cret'.outcome = "returned"
              /\ \A a, b \in 1..Len(res) :
                    a < b => /\ rank(res[a]) <= rank(res[b])
                             /\ (rank(res[a]) = 3 => res[a] < res[b])
              /\ \A a \in 1..Len(res) : res[a] \in 1..Len(dbQuestions')
              /\ Len(res) = Min(cret'.count,
                                Len(cret'.gathered) + Len(dbQuestions') - old)
              /\ \A a, b \in (old + 1)..Len(dbQuestions') :
                    a # b => Normalize(dbQuestions'[a].stem) # Normalize(dbQuestions'[b].stem)
              /\ (/\ cret'.count = 10
                  /\ Cardinality(ExactRows(dbQuestions, seen, cret'.request)) = 3
                  /\ Cardinality(AnyRows(dbQuestions, seen, cret'.request)) = 5
                  /\ cret'.gen = "ok")
                    => (Len(res) = 9 /\ Len(dbQuestions') = old + 4) ]_vars

\* the example of the claim: 3 + 2 pool questions and 4 of the 5 generated
C21_Witness ==
    /\ cret.outcome = "returned"
    /\ cret.count = 10
    /\ cret.gen = "ok"
    /\ seen = {}
    /\ Len(cret.gathered) = 5
    /\ Len(cret.result) = 9
    /\ \A a \in 1..3 : dbQuestions[cret.result[a]].difficulty = 3
    /\ \A a \in 4..5 : dbQuestions[cret.result[a]].difficulty = 4

(***************************************************************************)
(* The full test: skipped sections, totals and the order of completion     *)
(***************************************************************************)
\* C22: in run_full_test a section for which the cache returns no question
\* is skipped: it adds no SectionResult and stores no answer, the loop goes
\* on with the section after it, and the session is still finalized (marked
\* completed and written to storage) before the flow returns.
C22_EmptySectionSkipped ==
    [][ LET sections == LEVEL_CONFIGS[student.level].sections
        IN  /\ ( /\ pc = "section_intro"
                 /\ flow.sec <= Len(sections)
                 /\ pc' # "run_section" )
               => /\ flow'.section_results = flow.section_results
                  /\ flow'.all_answers = flow.all_answers
                  /\ flow'.all_questions = flow.all_questions
                  /\ saved' = saved
                  /\ answerLog' = answerLog
                  /\ flow'.sec = flow.sec + 1
                  /\ pc' = "section_intro"
            /\ ( /\ pc = "section_intro"
                 /\ flow.sec > Len(sections) )
               => pc' = "after_sections"
            /\ ( /\ pc' = "returned"
                 /\ pc # "returned"
                 /\ flow.mode = "full_test"
                 /\ flow.session.id # 0 )
               => \E i \in 1..Len(dbSessions') :
                     /\ dbSessions'[i].id = flow.session.id
                     /\ dbSessions'[i].completed
                     /\ dbSessions'[i].updates = 1
                     /\ dbSessions'[i].total_scaled = flow.session.total_scaled
      ]_vars

\* a full test whose first section was skipped, whose second section ran,
\* and which returned with its session completed in storage
C22_Witness ==
    /\ pc = "returned"
    /\ flow.mode = "full_test"
    /\ Len(flow.section_results) >= 1
    /\ flow.section_results[1].section_name
         = LEVEL_CONFIGS[student.level].sections[2].name
    /\ saved # << >>
    /\ \E i \in 1..Len(dbSessions) :
          dbSessions[i].id = flow.session.id /\ dbSessions[i].completed

\* C23: after _finalize_full_test the session's total_scaled is the sum of
\* its verbal_scaled, quantitative_scaled and reading_scaled, a category
\* that was not scored counting as 0; a full test with no scored section
\* has a total of 0.
C23_TotalIsSumOfCategories ==
    \A i \in 1..Len(dbSessions) :
        LET s == dbSessions[i]
            part(x) == IF x = None THEN 0 ELSE x
        IN  (s.mode = "full_test" /\ s.completed)
            => /\ s.total_scaled = part(s.verbal_scaled) + part(s.quantitative_scaled)
                                     + part(s.reading_scaled)
               /\ ( /\ s.verbal_scaled = None
                    /\ s.quantitative_scaled = None
                    /\ s.reading_scaled = None ) => s.total_scaled = 0
               /\ (flow.session.id = s.id /\ flow.section_results = << >>)
                    => s.total_scaled = 0

\* a finalized full test with two scored categories and one that was not
C23_Witness ==
    \E i \in 1..Len(dbSessions) :
        LET s == dbSessions[i]
        IN  /\ s.mode = "full_test"
            /\ s.completed
            /\ s.quantitative_scaled # None
            /\ s.verbal_scaled # None
            /\ s.reading_scaled = None
            /\ s.total_scaled = s.quantitative_scaled + s.verbal_scaled
            /\ s.total_scaled > 0

\* C24: a full test completes in this order: the answers of every section
\* are in storage, then the session is stored with its final scores and its
\* completion, then the mastery update runs on all the answers and
\* questions of the test, then check_and_replenish; the mastery update never
\* runs before the answers it grades are stored.
C24_CompletionOrder ==
    [][ LET stored == \A a \in 1..Len(flow.all_answers) :
                         \E k \in 1..Len(saved) :
                            /\ saved[k].session_id = flow.session.id
                            /\ saved[k].question_id = flow.all_answers[a].question_id
                            /\ saved[k].selected_answer = flow.all_answers[a].selected_answer
            row(db) == db[CHOOSE i \in 1..Len(db) : db[i].id = flow.session.id]
        IN  (flow.mode = "full_test" /\ flow.session.id # 0)
            => /\ (pc' = "finalize" /\ pc # "finalize")
                    => (pc = "after_sections" /\ ~row(dbSessions).completed)
               /\ (pc = "finalize" /\ pc' # "finalize")
                    => /\ stored
                       /\ Len(saved) = Len(flow.all_answers)
                       /\ ~row(dbSessions).completed
                       /\ row(dbSessions').completed
                       /\ row(dbSessions').total_scaled = flow'.session.total_scaled
                       /\ mastery' = mastery
                       /\ student' = student
                       /\ pc' = "update_mastery"
               /\ (mastery' # mastery \/ student' # student \/ pc = "update_mastery")
                    => /\ pc = "update_mastery"
                       /\ stored
                       /\ saved' = saved
                       /\ row(dbSessions).completed
                       /\ dbSessions' = dbSessions
                       /\ EngineUpdate(BatchOfAnswers(flow.all_answers, flow.all_questions),
                                       answerLog)
                       /\ pc' = "replenish"
               /\ (pc = "replenish" /\ pc' # "replenish")
                    => /\ row(dbSessions).completed
                       /\ dbSessions' = dbSessions
                       /\ saved' = saved
                       /\ mastery' = mastery
                       /\ pc' = "returned"
               /\ (pc' = "replenish" /\ pc # "replenish") => pc = "update_mastery"
      ]_vars

\* a full test of two scored sections that has returned: its answers are
\* stored, its session is completed and its mastery records were updated
C24_Witness ==
    /\ pc = "returned"
    /\ flow.mode = "full_test"
    /\ Len(flow.section_results) = 2
    /\ Len(saved) = Len(flow.all_answers)
    /\ Len(saved) >= 2
    /\ \E i \in 1..Len(dbSessions) :
          dbSessions[i].id = flow.session.id /\ dbSessions[i].completed
    /\ \E t \in Topics : mastery[t] # NewMastery

(***************************************************************************)
(* Promotion and the full tests on record                                  *)
(***************************************************************************)
\* C25: a student is promoted at most once per qualifying history: when an
\* update_after_answers call has promoted the student (_level_up changed
\* the grade or the level), the next update_after_answers call does not
\* promote again unless a new full-test session was recorded in between.
C25_PromotedOncePerHistory ==
    [][ ( /\ ret'.op = "update_after_answers"
          /\ answerLog' # answerLog
          /\ ret.op = "update_after_answers"
          /\ ret.mastery_event \in {"grade_up", "to_middle"}
          /\ Len(ftSessions) = ret.full_tests )
        => student' = student ]_vars

(***************************************************************************)
(* get_questions: when the generator runs and what it adds                 *)
(***************************************************************************)
\* C26: get_questions calls the generator only when the pool is thin: when
\* storage holds at least `count` questions of the type and level that the
\* student has not answered, of any difficulty, the call returns exactly
\* `count` pool questions and does not call the generator, whichever rows
\* the two queries select.
C26_GeneratorOnlyWhenThin ==
    [][ ( /\ cret' # cret
          /\ seen' = seen
          /\ cret'.count >= 0
          /\ Cardinality(AnyRows(dbQuestions, seen, cret'.request)) >= cret'.count )
        => /\ cret'.outcome = "returned"
           /\ cret'.gen = "not_called"
           /\ Len(cret'.result) = cret'.count
           /\ RangeOf(cret'.result) \subseteq AnyRows(dbQuestions, seen, cret'.request)
           /\ dbQuestions' = dbQuestions ]_vars

\* C27: a generated item whose normalized stem equals that of a pool
\* question chosen in the same call, or of an earlier item of the batch, is
\* neither stored nor returned; no two questions of the returned list share
\* a normalized stem.
C27_NoRepeatedStem ==
    [][ ( /\ cret' # cret
          /\ seen' = seen
          /\ cret'.outcome = "returned" )
        => LET norm(i) == Normalize(dbQuestions'[i].stem)
               added == (Len(dbQuestions) + 1)..Len(dbQuestions')
           IN  /\ \A i \in added : \A g \in RangeOf(cret'.gathered) : norm(i) # norm(g)
               /\ \A i, j \in added : i # j => norm(i) # norm(j)
               /\ \A a, b \in 1..Len(cret'.result) :
                     a # b => norm(cret'.result[a]) # norm(cret'.result[b]) ]_vars

\* C28: when get_questions calls the generator it asks for
\* max(shortfall, QUESTIONS_PER_BATCH) questions of an ordinary type; for
\* reading_comprehension it asks for num_passages passages of
\* QUESTIONS_PER_PASSAGE questions, num_passages rounded up so that the
\* questions asked for cover the shortfall, for every shortfall >= 1.
C28_GeneratorRequestSize ==
    [][ ( /\ cret' # cret
          /\ cret'.outcome = "returned"
          /\ cret'.gen # "not_called" )
        => LET shortfall == cret'.count - Len(cret'.gathered)
           IN  /\ shortfall >= 1
               /\ IF cret'.request.question_type = "reading_comprehension"
                  THEN /\ cret'.asked
                            = ((shortfall + QUESTIONS_PER_PASSAGE - 1)
                                 \div QUESTIONS_PER_PASSAGE) * QUESTIONS_PER_PASSAGE
                       /\ cret'.asked >= shortfall
                  ELSE cret'.asked = Max(shortfall, QUESTIONS_PER_BATCH) ]_vars

(***************************************************************************)
(* lookup_percentile: the grade whose table is used                        *)
(***************************************************************************)
\* the table of grade g for the level and section of the last lookup
TableOfGrade(g) == GradeData(ret.file, student.level, ret.section, g)

\* the lookup's answer when it takes the first table of `grades` that
\* exists, and the fallback estimate when none of them does
AnswerFrom(grades) ==
    LET found == { k \in 1..Len(grades) : TableOfGrade(grades[k]) # << >> }
    IN  IF found = {} THEN Returns(FallbackPercentile(ret.scaled, student.level))
        ELSE Interpolate(TableOfGrade(grades[CHOOSE k \in found : \A j \in found : k <= j]),
                         ret.scaled)

\* C29 (as claimed): without a table for the exact grade, lookup_percentile
\* uses the table of a nearby grade, trying grade-1 and grade+1 first, then
\* grade-2 and grade+2; the fallback estimate is used only when none of the
\* five grades has a table.
C29_TwoGradesAway ==
    (ret.op = "lookup_percentile" /\ ret.file.kind = "object")
        => LET g == student.grade
           IN  ret.result = AnswerFrom(<< g, g - 1, g + 1, g - 2, g + 2 >>)

\* C29 (amended): without a table for the exact grade, lookup_percentile
\* uses the table of grade-1 when there is one and otherwise the table of
\* grade+1; grades two away are not tried, and the fallback estimate is used
\* when none of the three grades has a table.
C29_AdjacentGradeOnly ==
    (ret.op = "lookup_percentile" /\ ret.file.kind = "object")
        => LET g == student.grade
           IN  ret.result = AnswerFrom(<< g, g - 1, g + 1 >>)

\* a grade-6 lookup with tables for grades 5 and 7 only: the table of
\* grade 5 answers, and it answers differently from the table of grade 7
C29_Witness ==
    /\ ret.op = "lookup_percentile"
    /\ ret.file.kind = "object"
    /\ student.grade = 6
    /\ TableOfGrade(6) = << >>
    /\ TableOfGrade(5) # << >>
    /\ TableOfGrade(7) # << >>
    /\ ret.result = Interpolate(TableOfGrade(5), ret.scaled)
    /\ ret.result # Interpolate(TableOfGrade(7), ret.scaled)

(***************************************************************************)
(* web_app.py: the full test and the quick drill pages.  Streamlit runs    *)
(* main() from the top for every event, so one step here is one run of the *)
(* page's phase handler: with a button of the page clicked, or without (the *)
(* run st.rerun() asks for, or a rerun of the page asked for from           *)
(* Streamlit's menu).  `pc` holds test_phase, `qi` test_index (from 1),     *)
(* `questions` and `answers` test_questions and test_answers, and `flow`    *)
(* the rest of st.session_state.                                            *)
(***************************************************************************)
\* the reruns of an already rendered page that are followed
MaxReruns == 1

\* session_state after reset_test_state on the way to `page`; `rendered`
\* tells that the phase's widgets are on the screen, so that a button of
\* them can be clicked
FreshPage(page) ==
    [ page |-> page, session |-> NewSession(0, "none"), sec |-> 1, timed |-> FALSE,
      rendered |-> FALSE, reruns |-> 0,
      section_results |-> << >>, all_answers |-> << >>, all_questions |-> << >> ]

\* a run with a click needs the button on the screen
CanRun(click) ==
    IF click THEN flow.rendered ELSE (~flow.rendered \/ flow.reruns < MaxReruns)

\* the widgets after the run: st.rerun() leaves the run before the next
\* phase is drawn
AfterRun(f, click, rerun) ==
    [ f EXCEPT !.rendered = ~rerun,
               !.reruns = IF ~click /\ flow.rendered THEN @ + 1 ELSE @ ]

\* _fulltest_setup: "Begin Test" creates the session row
FulltestSetup(click) ==
    /\ flow.page = "full_test"
    /\ pc = "setup"
    /\ CanRun(click)
    /\ IF click
       THEN LET s == NewSession(Len(dbSessions) + 1, "full_test")
            IN  /\ dbSessions' = <<s>> \o dbSessions
                /\ flow' = [ AfterRun(flow, click, TRUE) EXCEPT
                               !.session = s, !.sec = 1, !.section_results = << >>,
                               !.all_answers = << >>, !.all_questions = << >> ]
                /\ pc' = "section_intro"
       ELSE /\ flow' = AfterRun(flow, click, FALSE)
            /\ UNCHANGED <<dbSessions, pc>>
    /\ UNCHANGED <<student, mastery, answerLog, ret>>
    /\ UNCHANGED cacheVars
    /\ UNCHANGED <<questions, qi, answers, shown, timer, saved>>

\* _fulltest_section_intro: past the last section the phase becomes
\* test_complete; "Start Section" fetches the questions and stays on the
\* page when there is none
FulltestSectionIntro(click) ==
    /\ flow.page = "full_test"
    /\ pc = "section_intro"
    /\ CanRun(click)
    /\ LET sections == LEVEL_CONFIGS[student.level].sections
       IN  IF flow.sec > Len(sections)
           THEN /\ pc' = "test_complete"
                /\ flow' = AfterRun(flow, click, TRUE)
                /\ UNCHANGED <<questions, answers, qi>>
           ELSE IF ~click
           THEN /\ flow' = AfterRun(flow, click, FALSE)
                /\ UNCHANGED <<pc, questions, answers, qi>>
           ELSE \E qs \in Fetched(sections[flow.sec].question_types,
                                  sections[flow.sec].question_count) :
                  IF qs = << >>
                  THEN /\ flow' = AfterRun(flow, click, FALSE)
                       /\ UNCHANGED <<pc, questions, answers, qi>>
                  ELSE /\ questions' = qs
                       /\ answers' = << >>
                       /\ qi' = 1
                       /\ flow' = [ AfterRun(flow, click, TRUE) EXCEPT
                                      !.timed = sections[flow.sec].time_minutes * 60 > 0 ]
                       /\ pc' = "question"
    /\ UNCHANGED <<shown, timer, saved>>
    /\ UNCHANGED dbVars

\* _fulltest_question: the time-up test (up is is_time_up()), the end of the
\* list, then the question with "Submit Answer" and "Skip"
FulltestQuestion(click, selected, up) ==
    /\ flow.page = "full_test"
    /\ pc = "question"
    /\ CanRun(click)
    /\ up => flow.timed
    /\ IF up
       THEN /\ answers' = answers \o SkippedAnswers(questions, qi)
            /\ pc' = "section_complete"
            /\ flow' = AfterRun(flow, click, TRUE)
            /\ UNCHANGED qi
       ELSE IF qi > Len(questions)
       THEN /\ pc' = "section_complete"
            /\ flow' = AfterRun(flow, click, TRUE)
            /\ UNCHANGED <<answers, qi>>
       ELSE IF click
       THEN /\ answers' = Append(answers, GivenAnswer(questions[qi], selected, 1))
            /\ qi' = qi + 1
            /\ flow' = AfterRun(flow, click, TRUE)
            /\ UNCHANGED pc
       ELSE /\ flow' = AfterRun(flow, click, FALSE)
            /\ UNCHANGED <<pc, answers, qi>>
    /\ UNCHANGED <<questions, shown, timer, saved>>
    /\ UNCHANGED dbVars

\* score_current_section: the three scores, then save_answer for every
\* answer of test_answers
ScoreCurrentSection(section) ==
    /\ SaveAnswers(answers, questions)
    /\ ret' = [ op |-> "score_current_section",
                result |-> SectionResult(section, answers, student.level, student.grade) ]

\* _fulltest_section_complete: score_current_section and the three appends,
\* then the button to the next section or to the report
FulltestSectionComplete(click) ==
    /\ flow.page = "full_test"
    /\ pc = "section_complete"
    /\ CanRun(click)
    /\ LET sections == LEVEL_CONFIGS[student.level].sections
           after == [ flow EXCEPT !.section_results = Append(@, ret'.result),
                                  !.all_answers = @ \o answers,
                                  !.all_questions = @ \o questions ]
       IN  /\ ScoreCurrentSection(sections[flow.sec])
           /\ IF ~click
              THEN /\ flow' = AfterRun(after, click, FALSE)
                   /\ UNCHANGED pc
              ELSE IF flow.sec + 1 <= Len(sections)
              THEN /\ flow' = [ AfterRun(after, click, TRUE) EXCEPT !.sec = flow.sec + 1 ]
                   /\ pc' = "section_intro"
              ELSE /\ flow' = AfterRun(after, click, TRUE)
                   /\ pc' = "test_complete"
    /\ UNCHANGED <<student, mastery, dbSessions, dbQuestions, cret>>
    /\ UNCHANGED <<questions, qi, answers, shown, timer>>

\* _fulltest_complete: the aggregation, update_session, the mastery update
\* and the report; "Back to Home" resets the test state
FulltestComplete(click) ==
    /\ flow.page = "full_test"
    /\ pc = "test_complete"
    /\ CanRun(click)
    /\ LET s == FinalizedSession(flow.session, flow.section_results)
       IN  /\ dbSessions' = UpdateSession(dbSessions, s)
           /\ EngineUpdate(BatchOfAnswers(flow.all_answers, flow.all_questions), answerLog)
           /\ IF click
              THEN /\ flow' = FreshPage("home")
                   /\ pc' = "home"
                   /\ questions' = << >>
                   /\ answers' = << >>
                   /\ qi' = 0
              ELSE /\ flow' = [ AfterRun(flow, click, FALSE) EXCEPT !.session = s ]
                   /\ UNCHANGED <<pc, questions, answers, qi>>
    /\ UNCHANGED answerLog
    /\ UNCHANGED cacheVars
    /\ UNCHANGED <<shown, timer, saved>>

\* _drill_setup: "Start Drill" fetches the questions, stays on the page when
\* there is none and creates the session row otherwise
DrillSetup(click, types, count, use_timer) ==
    /\ flow.page = "quick_drill"
    /\ pc = "setup"
    /\ CanRun(click)
    /\ IF ~click
       THEN /\ flow' = AfterRun(flow, click, FALSE)
            /\ UNCHANGED <<pc, questions, answers, qi, dbSessions>>
       ELSE \E qs \in Fetched(types, count) :
              IF qs = << >>
              THEN /\ flow' = AfterRun(flow, click, FALSE)
                   /\ UNCHANGED <<pc, questions, answers, qi, dbSessions>>
              ELSE LET s == NewSession(Len(dbSessions) + 1, "quick_drill")
                   IN  /\ dbSessions' = <<s>> \o dbSessions
                       /\ questions' = Take(qs, count)
                       /\ answers' = << >>
                       /\ qi' = 1
                       /\ flow' = [ AfterRun(flow, click, TRUE) EXCEPT
                                      !.session = s, !.timed = use_timer ]
                       /\ pc' = "question"
    /\ UNCHANGED <<student, mastery, answerLog, ret>>
    /\ UNCHANGED cacheVars
    /\ UNCHANGED <<shown, timer, saved>>

\* _drill_question: as _fulltest_question, but an answer leads to the
\* feedback phase and the end of the list to the complete phase
DrillQuestion(click, selected, up) ==
    /\ flow.page = "quick_drill"
    /\ pc = "question"
    /\ CanRun(click)
    /\ up => flow.timed
    /\ IF up
       THEN /\ answers' = answers \o SkippedAnswers(questions, qi)
            /\ pc' = "complete"
            /\ flow' = AfterRun(flow, click, TRUE)
       ELSE IF qi > Len(questions)
       THEN /\ pc' = "complete"
            /\ flow' = AfterRun(flow, click, TRUE)
            /\ UNCHANGED answers
       ELSE IF click
       THEN /\ answers' = Append(answers, GivenAnswer(questions[qi], selected, 1))
            /\ pc' = "feedback"
            /\ flow' = AfterRun(flow, click, TRUE)
       ELSE /\ flow' = AfterRun(flow, click, FALSE)
            /\ UNCHANGED <<pc, answers>>
    /\ UNCHANGED <<questions, qi, shown, timer, saved>>
    /\ UNCHANGED dbVars

\* _drill_feedback: "Next Question" moves test_index on
DrillFeedback(click) ==
    /\ flow.page = "quick_drill"
    /\ pc = "feedback"
    /\ CanRun(click)
    /\ IF click
       THEN /\ qi' = qi + 1
            /\ pc' = "question"
            /\ flow' = AfterRun(flow, click, TRUE)
       ELSE /\ flow' = AfterRun(flow, click, FALSE)
            /\ UNCHANGED <<pc, qi>>
    /\ UNCHANGED <<questions, answers, shown, timer, saved>>
    /\ UNCHANGED dbVars

\* _drill_complete: completed_at and update_session, the mastery update and
\* the summary; "Back to Home" resets the test state.  No save_answer call
\* is made for the drill's answers.
DrillComplete(click) ==
    /\ flow.page = "quick_drill"
    /\ pc = "complete"
    /\ CanRun(click)
    /\ LET s == [ flow.session EXCEPT !.completed = TRUE ]
       IN  /\ dbSessions' = UpdateSession(dbSessions, s)
           /\ EngineUpdate(BatchOfAnswers(answers, questions), answerLog)
           /\ IF click
              THEN /\ flow' = FreshPage("home")
                   /\ pc' = "home"
                   /\ questions' = << >>
                   /\ answers' = << >>
                   /\ qi' = 0
              ELSE /\ flow' = [ AfterRun(flow, click, FALSE) EXCEPT !.session = s ]
                   /\ UNCHANGED <<pc, questions, answers, qi>>
    /\ UNCHANGED answerLog
    /\ UNCHANGED cacheVars
    /\ UNCHANGED <<shown, timer, saved>>

\* render_sidebar runs before the page: a navigation button resets the test
\* state and calls st.rerun(), so the page's handler does not run
RenderSidebar(page) ==
    /\ flow.page # "home"
    /\ flow.rendered
    /\ flow' = FreshPage(page)
    /\ pc' = IF page = "home" THEN "home" ELSE "setup"
    /\ questions' = << >>
    /\ answers' = << >>
    /\ qi' = 0
    /\ UNCHANGED <<shown, timer, saved>>
    /\ UNCHANGED dbVars

\* the student has picked a page in the sidebar; nothing is stored yet
InitWeb ==
    /\ student = [level |-> "elementary", grade |-> 4]
    /\ mastery = [t \in Topics |-> NewMastery]
    /\ answerLog = [t \in Topics |-> NoAnswers]
    /\ dbSessions = << >>
    /\ ret = [op |-> "none", result |-> SectionResult(NoSection, << >>, "elementary", 4)]
    /\ InitCache
    /\ pc = "setup"
    /\ flow \in { FreshPage("full_test"), FreshPage("quick_drill") }
    /\ questions = << >>
    /\ qi = 0
    /\ answers = << >>
    /\ shown = << >>
    /\ timer = NoTimer
    /\ saved = << >>

NextWeb ==
    \/ \E click \in BOOLEAN : FulltestSetup(click)
    \/ \E click \in BOOLEAN : FulltestSectionIntro(click)
    \/ \E click \in BOOLEAN : \E selected \in Choices : \E up \in BOOLEAN :
          FulltestQuestion(click, selected, up)
    \/ \E click \in BOOLEAN : FulltestSectionComplete(click)
    \/ \E click \in BOOLEAN : FulltestComplete(click)
    \/ \E click \in BOOLEAN : \E types \in DrillSelections : \E count \in DrillCounts :
          \E use_timer \in BOOLEAN : DrillSetup(click, types, count, use_timer)
    \/ \E click \in BOOLEAN : \E selected \in Choices : \E up \in BOOLEAN :
          DrillQuestion(click, selected, up)
    \/ \E click \in BOOLEAN : DrillFeedback(click)
    \/ \E click \in BOOLEAN : DrillComplete(click)
    \/ RenderSidebar("home")

SpecWeb == InitWeb /\ [][NextWeb]_vars

\* the rows of the answers table for question id `q` of the current session
RowsOf(q) ==
    Cardinality({ k \in 1..Len(saved) :
                    saved[k].session_id = flow.session.id /\ saved[k].question_id = q })

\* C30: in the web orchestrator, whose phase handlers run again on every
\* page rerun, each answer is persisted exactly once: when a section or a
\* quick drill is finished the answers table holds one row per delivered
\* question, and re-rendering or leaving the section-complete or
\* drill-complete phase stores none of them again and skips none.
C30_WebAnswersStoredOnce ==
    /\ \A j, k \in 1..Len(saved) :
          (saved[j].session_id = saved[k].session_id
             /\ saved[j].question_id = saved[k].question_id) => j = k
    /\ ( /\ flow.page = "full_test"
         /\ \/ pc = "section_complete" /\ flow.rendered
            \/ pc \in {"section_intro", "test_complete"} )
       => \A i \in 1..Len(flow.all_questions) : RowsOf(flow.all_questions[i].id) = 1
    /\ ( /\ flow.page = "quick_drill"
         /\ pc = "complete"
         /\ flow.rendered )
       => \A i \in 1..Len(questions) : RowsOf(questions[i].id) = 1

(***************************************************************************)
(* Step-down and the grade range of a level                                *)
(***************************************************************************)
\* C38: level_down moves a middle-level student above grade 5 down one
\* grade, a middle-level grade 5 student to elementary grade 4 and an
\* elementary grade 4 student to grade 3, and stores the student; at
\* elementary grade 3 grade and level stay as they are.
C38_LevelDownTransitions ==
    [][ ( /\ ret'.op = "level_down"
          /\ (ret.op # "level_down" \/ student' # student) )
        => /\ (student.level = "middle" /\ student.grade > 5)
                => student' = [level |-> "middle", grade |-> student.grade - 1]
           /\ (student.level = "middle" /\ student.grade = 5)
                => student' = [level |-> "elementary", grade |-> 4]
           /\ (student.level = "elementary" /\ student.grade = 4)
                => student' = [level |-> "elementary", grade |-> 3]
           /\ (student.level = "elementary" /\ student.grade = 3)
                => student' = student ]_vars

\* level_down has just left the student at elementary grade 4, which only
\* the step from middle grade 5 does when grade 4 was not the start
C38_Witness ==
    /\ ret.op = "level_down"
    /\ student = [level |-> "elementary", grade |-> 4]

\* C39: for a student who starts inside the grade range of the level
\* (elementary 3-4, middle 5-7), every sequence of _level_up and level_down
\* calls keeps the grade inside the range of the level.
C39_GradeInsideLevelRange ==
    /\ student.level \in {"elementary", "middle"}
    /\ student.level = "elementary" => student.grade \in {3, 4}
    /\ student.level = "middle" => student.grade \in {5, 6, 7}

\* a student promoted to the top of the middle level after a step-down to
\* the elementary level: the last promotion found nothing left to change
C39_Witness ==
    /\ ret.op = "_level_up"
    /\ ret.message = "mastered"
    /\ student = [level |-> "middle", grade |-> 7]

(***************************************************************************)
(* The category fields of a finalized full test                            *)
(***************************************************************************)
\* C32: when a full test has two scored quantitative sections with results
\* (r1, s1, p1) and (r2, s2, p2), finalization sets quantitative_raw to
\* r1 + r2, quantitative_scaled to floor((s1 + s2) / 2) and
\* quantitative_percentile to floor((p1 + p2) / 2); with one scored
\* quantitative section, and for the verbal and reading categories, the
\* fields hold that section's raw, scaled and percentile values.
C32_QuantitativeCombined ==
    ( /\ flow.mode = "full_test"
      /\ flow.session.id # 0
      /\ pc \in {"update_mastery", "replenish", "returned"} )
    => LET results == flow.section_results
           of(f) == { i \in 1..Len(results) :
                        MapSectionNameToScoreField(results[i].section_name) = f }
           row == dbSessions[CHOOSE i \in 1..Len(dbSessions) :
                                dbSessions[i].id = flow.session.id]
           q == of("quantitative")
           q1 == CHOOSE i \in q : \A j \in q : i <= j
           q2 == CHOOSE i \in q : \A j \in q : j <= i
       IN  /\ Cardinality(q) <= 2
           /\ Cardinality(q) = 2
                => /\ row.quantitative_raw = results[q1].raw_score + results[q2].raw_score
                   /\ 2 * row.quantitative_scaled
                        <= results[q1].scaled_score + results[q2].scaled_score
                   /\ results[q1].scaled_score + results[q2].scaled_score
                        < 2 * row.quantitative_scaled + 2
                   /\ 2 * row.quantitative_percentile
                        <= results[q1].percentile + results[q2].percentile
                   /\ results[q1].percentile + results[q2].percentile
                        < 2 * row.quantitative_percentile + 2
           /\ Cardinality(q) = 1
                => /\ row.quantitative_raw = results[q1].raw_score
                   /\ row.quantitative_scaled = results[q1].scaled_score
                   /\ row.quantitative_percentile = results[q1].percentile
           /\ \A f \in {"verbal", "reading"} : \A i \in of(f) :
                /\ Cardinality(of(f)) = 1
                /\ row[RawField[f]] = results[i].raw_score
                /\ row[ScaledField[f]] = results[i].scaled_score
                /\ row[PercentileField[f]] = results[i].percentile

\* a finalized middle-level test whose two quantitative sections were
\* scored with scaled scores of an odd sum, so that the floor drops a half
C32_Witness ==
    /\ flow.mode = "full_test"
    /\ pc = "returned"
    /\ Len(flow.section_results) = 2
    /\ flow.section_results[1].section_name = "Quantitative 1"
    /\ flow.section_results[2].section_name = "Quantitative 2"
    /\ (flow.section_results[1].scaled_score + flow.section_results[2].scaled_score) % 2 = 1
    /\ \E i \in 1..Len(dbSessions) :
          /\ dbSessions[i].id = flow.session.id
          /\ 2 * dbSessions[i].quantitative_scaled + 1
               = flow.section_results[1].scaled_score + flow.section_results[2].scaled_score

(***************************************************************************)
(* The countdown thread                                                    *)
(***************************************************************************)
\* C34: the timer thread writes only the timer's own state: remaining
\* starts at total_seconds, goes down by exactly 1 per tick and is never
\* negative; time_up is set only once remaining has reached 0 and is never
\* cleared; whatever the caller's get_remaining, is_time_up and stop calls
\* do in between, a step of the thread leaves the session, the answers and
\* the mastery rows as they were.
C34_TimerWritesOwnState ==
    /\ timer.remaining = timer.total_seconds
    /\ [][ /\ timer'.remaining \in {timer.remaining, timer.remaining - 1}
           /\ timer'.remaining >= 0
           /\ timer'.total_seconds = timer.total_seconds
           /\ timer.time_up => timer'.time_up
           /\ timer'.time_up => timer'.remaining = 0
           /\ (timer'.tpc # timer.tpc)
                => /\ UNCHANGED <<student, mastery, answerLog, dbSessions, seen, dbQuestions>>
                   /\ UNCHANGED <<flow, questions, qi, answers, shown, saved, ret, pc>>
                   /\ timer'.stop = timer.stop ]_vars

\* a countdown of MaxCountdown seconds that ran out after the caller had read
\* a remaining time in between
C34_Witness ==
    /\ timer.total_seconds = MaxCountdown
    /\ timer.time_up
    /\ timer.remaining = 0
    /\ ret.op = "is_time_up"
    /\ ret.time_up
    /\ ret.remaining = 2

\* C35: a started timer with total_seconds >= 1 that is never stopped
\* eventually sets time_up, having ticked exactly total_seconds times, and
\* its thread then ends; once stop() was requested the thread ticks at most
\* once more and then ends.
C35_TimerEnds ==
    /\ (timer.total_seconds >= 1)
         => <>( \/ timer.stop
                \/ ( /\ timer.time_up
                     /\ timer.total_seconds - timer.remaining = timer.total_seconds
                     /\ timer.tpc = "done" ) )
    /\ [](timer.time_up => timer.total_seconds - timer.remaining = timer.total_seconds)
    /\ [](timer.stop => ret.at_stop - timer.remaining \in {0, 1})
    /\ (timer.stop ~> timer.tpc = "done")
    /\ [][timer.tpc = "done" => timer'.tpc = "done"]_vars

\* a countdown of MaxCountdown seconds that nobody stopped, run out, its
\* thread ended
C35_Witness ==
    /\ timer.total_seconds = MaxCountdown
    /\ ~timer.stop
    /\ timer.time_up
    /\ timer.remaining = 0
    /\ timer.tpc = "done"

(***************************************************************************)
(* The retries of _call_api                                                *)
(***************************************************************************)
\* C36: _call_api makes at most MAX_RETRIES (3) requests; it returns the
\* first response it gets; it makes a further request only after a
\* rate-limit, connection or internal-server error; it raises
\* QuestionGenerationError at once on an authentication or bad-request
\* error, and raises it after the third transient failure in a row.
C36_CallApiRetries ==
    (ret.op = "_call_api") =>
      LET sent == ret.requests
          n == Len(sent)
      IN  /\ n <= MAX_RETRIES
          /\ \A i \in 1..(n - 1) : sent[i] \in {"RateLimitError", "APIConnectionError",
                                               "InternalServerError"}
          /\ (n > 0 /\ sent[n] = "response")
               => /\ pc = "api_done"
                  /\ ret.returned = n
                  /\ ret.raised = "none"
          /\ (n > 0 /\ sent[n] \in {"AuthenticationError", "BadRequestError"})
               => /\ pc = "api_done"
                  /\ ret.returned = 0
                  /\ ret.raised = "QuestionGenerationError"
          /\ ( /\ n = MAX_RETRIES
               /\ sent[n] \in {"RateLimitError", "APIConnectionError", "InternalServerError"}
               /\ pc = "api_done" )
               => /\ ret.returned = 0
                  /\ ret.raised = "QuestionGenerationError"
          /\ (pc = "api_done" /\ ret.returned # 0) => sent[ret.returned] = "response"
          /\ (pc = "api_done") => (ret.returned # 0 \/ ret.raised # "none")

\* the third request answered after two transient failures
C36_Witness ==
    /\ ret.op = "_call_api"
    /\ pc = "api_done"
    /\ ret.requests = <<"RateLimitError", "InternalServerError", "response">>
    /\ ret.returned = 3

(***************************************************************************)
(* The questions of a generated batch                                      *)
(***************************************************************************)
\* an item the validation is to drop: no stem, fewer than 4 choices, or a
\* correct-answer letter that is not a key of its choices
Defective(qd) ==
    \/ qd.stem = JsonNull
    \/ Strip(qd.stem) = ""
    \/ Cardinality(qd.keys) < 4
    \/ Upper(Strip(qd.correct_answer)) \notin qd.keys

\* C37: every Question built from a generated batch has a non-empty stem, a
\* correct_answer that is a key of its choices, and choices whose keys are
\* exactly A, B, C, D, E; an item without a stem, with fewer than 4 choices
\* or with a correct-answer letter that is not among its choices is dropped
\* by itself: the parse goes on and keeps the other items.
C37_ValidatedBatch ==
    (ret.op = "_parse_response") =>
      /\ \A i \in 1..Len(questions) :
            /\ questions[i].stem # ""
            /\ questions[i].correct_answer \in DOMAIN questions[i].choices
            /\ DOMAIN questions[i].choices = Letters
      /\ Len(questions) <= Len(SelectSeq(SubSeq(ret.items, 1, qi - 1),
                                         LAMBDA qd : ~Defective(qd)))
      /\ (pc = "parsed" /\ ret.items # << >>)
            => /\ qi = Len(ret.items) + 1
               /\ ret.raised # "none" => questions = << >>

(***************************************************************************)
(* The replenishment of the pools                                          *)
(***************************************************************************)
\* C40: check_and_replenish looks at every topic of the level, and starts
\* one generation for a topic exactly when the student's unseen count of
\* that topic is below MIN_POOL_SIZE; a generation that fails for a topic is
\* reported through the status callback with a warning, raises nothing, and
\* the topics after it are still looked at and replenished.
C40_ReplenishAllTopics ==
    (cret.op = "check_and_replenish" /\ pc = "replenish_done") =>
      /\ cret.raised = "none"
      /\ [ i \in 1..Len(cret.checked) |-> cret.checked[i].question_type ]
           = LevelTypes(cret.level)
      /\ cret.generated
           = [ i \in 1..Len(SelectSeq(cret.checked, LAMBDA c : c.unseen < MIN_POOL_SIZE)) |->
                 SelectSeq(cret.checked, LAMBDA c : c.unseen < MIN_POOL_SIZE)[i].question_type ]

(***************************************************************************)
(* The window counters against the cumulative counters                     *)
(***************************************************************************)
\* C33: for every topic, after any sequence of full tests, section
\* practices, quick drills and review drills with the mastery updates that
\* follow them, the mastery record has last_50_attempted <= total_attempted
\* and last_50_correct <= total_correct.
C33_WindowWithinTotals ==
    \A t \in Topics :
        /\ mastery[t].last_50_attempted <= mastery[t].total_attempted
        /\ mastery[t].last_50_correct <= mastery[t].total_correct

(***************************************************************************)
(* The questions delivered in a full test                                  *)
(***************************************************************************)
\* the questions the running full test has delivered so far: those of the
\* scored sections and those of the section in progress
Delivered ==
    flow.all_questions
      \o (IF pc \in {"run_section", "poll", "input", "stop_timer", "join", "section_done"}
          THEN questions ELSE << >>)

\* C31: within one full test no question is delivered in two sections
\* (Quantitative 1 and Quantitative 2 included) nor twice in one, and no
\* question is delivered that the student answered in an earlier session:
\* the answers of a section are stored before the next section is fetched.
C31_NoQuestionTwice ==
    (flow.mode = "full_test") =>
      /\ \A i, j \in 1..Len(Delivered) : i # j => Delivered[i].id # Delivered[j].id
      /\ \A i \in 1..Len(Delivered) : \A k \in 1..Len(saved) :
            saved[k].session_id # flow.session.id
              => saved[k].question_id # Delivered[i].id
      /\ (pc = "section_intro")
            => \A i \in 1..Len(flow.all_questions) : flow.all_questions[i].id \in seen

\* a finished middle-level test that delivered questions in Quantitative 1
\* and in Quantitative 2, for a student with an earlier answer on record
C31_Witness ==
    /\ flow.mode = "full_test"
    /\ pc = "returned"
    /\ Len(flow.section_results) = 2
    /\ flow.section_results[1].section_name = "Quantitative 1"
    /\ flow.section_results[2].section_name = "Quantitative 2"
    /\ Len(flow.all_questions) = 2
    /\ \E k \in 1..Len(saved) : saved[k].session_id # flow.session.id

====
